---- MODULE Spec2Model ----
(***************************************************************************)
(* The cross-schema copy of connection nodes: time_travel/main.py reads    *)
(* the legacy V2ConnectionNode table (legacy/models.py) through the Django *)
(* query interface and writes ConnectionNode rows (future/models.py)       *)
(* through a SQLAlchemy session (future/main.py, future/database.py).      *)
(*                                                                         *)
(* time_travel/main.py calls create_db; future/main.py spells the function *)
(* _create_db (and create_template_db, same body).  future/main.py takes   *)
(* SessionLocal and engine from future/database.py, where the session      *)
(* factory is sessionmaker(autocommit=False, autoflush=False, bind=engine).*)
(* The model follows the bodies of the functions as written.               *)
(*                                                                         *)
(* The legacy schema (legacy/models.py, legacy/constants.py) is modelled   *)
(* beside the script: the choice sets and the lookup tables built from     *)
(* them (ChoiceSpec), the fields declared with choices= and their          *)
(* validation (ValidationSpec), and the rows of the tables with their      *)
(* foreign keys, all on_delete=CASCADE (StoreSpec, ControlSpec, NodeSpec,  *)
(* MeasureSpec, CascadeSpec).  ProjectionSpec runs the script over legacy  *)
(* tables that vary the fields the new schema has no column for, and       *)
(* ScopeSpec is the context manager SqliteDatabase.session of              *)
(* future/database.py, which the script does not use.                      *)
(***************************************************************************)
EXTENDS Integers, Sequences, FiniteSets, TLC

\* ------------------------------------------------------------------ bounds
MaxId == 2      \* legacy primary keys are drawn from 1..MaxId
MaxRuns == 2    \* number of runs of swap_node_data in one behaviour
MaxStore == 3   \* number of rows the legacy tables hold together
MaxSessions == 3  \* number of sessions SqliteDatabase.session() hands out

\* --------------------------------------------------------------- constants
WORK_SRID == 4326
srid == 4326

\* Python values carry their type: None, numbers, strings, geometry objects.
None == [t |-> "NoneType"]
PyInt(n) == [t |-> "int", v |-> n]
PyFloat(n) == [t |-> "float", v |-> n]
PyStr(s) == [t |-> "str", v |-> s]

Ids == 1..MaxId

\* ---------------------------------------------------------------- geometry
\* A geometry object (GEOSGeometry): type, srid and coordinates.
Points ==
    { [t |-> "geometry", type |-> "POINT", srid |-> WORK_SRID,
       coords |-> <<4, 52>>],
      [t |-> "geometry", type |-> "POINT", srid |-> WORK_SRID,
       coords |-> <<5, 53>>] }

LineStrings ==
    { [t |-> "geometry", type |-> "LINESTRING", srid |-> WORK_SRID,
       coords |-> <<4, 52, 5, 53>>] }

\* v.ewkt exists only on a geometry object; None has no attribute ewkt.
HasEwkt(v) == v.t = "geometry"

\* (variant: v.wkt, the text without the SRID prefix)
ewkt_as_wkt(g) == PyStr(<<g.type, "(", g.coords, ")">>)

\* g.ewkt: the text "SRID=<srid>;<TYPE> (<coords>)", kept as its tokens.
ewkt(g) == PyStr(<<"SRID=", g.srid, ";", g.type, "(", g.coords, ")">>)

\* the reading of an ewkt text back into a geometry (GeomFromEWKT, which
\* the Geometry column type applies to the bound text)
from_ewkt(s) ==
    [t |-> "geometry", type |-> s.v[4], srid |-> s.v[2], coords |-> s.v[6]]

IsEwkt(s) ==
    /\ s.t = "str"
    /\ DOMAIN s.v = 1..7
    /\ s.v[1] = "SRID="
    /\ s.v[3] = ";"

\* ------------------------------------------------------------ field names
\* The characters of every attribute name the script can meet.
Chars(k) ==
    CASE k = "_state" -> <<"_", "s", "t", "a", "t", "e">>
      [] k = "id" -> <<"i", "d">>
      [] k = "storage_area" ->
            <<"s", "t", "o", "r", "a", "g", "e", "_", "a", "r", "e", "a">>
      [] k = "initial_waterlevel" ->
            <<"i", "n", "i", "t", "i", "a", "l", "_", "w", "a", "t", "e", "r",
              "l", "e", "v", "e", "l">>
      [] k = "code" -> <<"c", "o", "d", "e">>
      [] k = "the_geom" -> <<"t", "h", "e", "_", "g", "e", "o", "m">>
      [] k = "the_geom_linestring" ->
            <<"t", "h", "e", "_", "g", "e", "o", "m", "_", "l", "i", "n", "e",
              "s", "t", "r", "i", "n", "g">>

\* k.startswith(p)
startswith(k, p) ==
    /\ Len(Chars(k)) >= Len(p)
    /\ SubSeq(Chars(k), 1, Len(p)) = p

\* p in k   (substring test)
contains(k, p) ==
    \E s \in 1..(Len(Chars(k)) - Len(p) + 1) :
        SubSeq(Chars(k), s, s + Len(p) - 1) = p

Underscore == <<"_">>
Geom == <<"g", "e", "o", "m">>

\* ------------------------------------------------------------ the schemas
\* V2ConnectionNode: the implicit primary key and the five declared fields.
LegacyFields ==
    {"id", "storage_area", "initial_waterlevel", "code", "the_geom",
     "the_geom_linestring"}

\* ConnectionNode.__table__.columns.keys()
future_fields == {"id", "storage_area", "initial_waterlevel", "the_geom"}

\* columns declared nullable=False or primary_key=True
RequiredColumns == {"id", "the_geom"}

Floats == {None, PyFloat(125)}
Levels == {PyFloat(8)}
Codes == {PyStr("c1")}

\* The values of one legacy row besides its primary key.  the_geom is
\* declared NOT NULL by the model, but the table is written by tools outside
\* this repository, so a row without a geometry is an input to be met.
LegacyBody ==
    [storage_area : Floats, initial_waterlevel : Levels, code : Codes,
     the_geom : Points \cup {None},
     the_geom_linestring : LineStrings \cup {None}]

LegacyRow(i, b) ==
    [id |-> PyInt(i), storage_area |-> b.storage_area,
     initial_waterlevel |-> b.initial_waterlevel, code |-> b.code,
     the_geom |-> b.the_geom, the_geom_linestring |-> b.the_geom_linestring]


\* V2ConnectionNode.objects.all().only(*fields): the rows in primary-key
\* order (Meta.ordering = ('pk',)), each with only the named fields and the
\* primary key loaded; the others are deferred and absent from __dict__.
RECURSIVE SortedIds(_)
SortedIds(S) ==
    IF S = {} THEN <<>>
    ELSE LET m == CHOOSE x \in S : \A y \in S : x <= y
         IN  <<m>> \o SortedIds(S \ {m})

\* entry.__dict__ of a row loaded with the given fields: the loaded fields
\* and the ORM's private _state attribute.
EntryDict(row, loaded) ==
    [k \in loaded \cup {"_state"} |-> IF k = "_state" THEN [t |-> "ModelState"] ELSE row[k]]

\* (variant: objects.all() without only(): every field is loaded)
only_all_fields(table, fields) ==
    LET order == SortedIds(DOMAIN table)
    IN  [n \in 1..Len(order) |-> EntryDict(table[order[n]], LegacyFields)]

\* (variant: the rows without a geometry are filtered out of the query)
only_skip_null(table, fields) ==
    LET order == SortedIds({n \in DOMAIN table : table[n].the_geom # None})
        loaded == (fields \cap LegacyFields) \cup {"id"}
    IN  [n \in 1..Len(order) |-> EntryDict(table[order[n]], loaded)]

only(table, fields) ==
    LET order == SortedIds(DOMAIN table)
        loaded == (fields \cap LegacyFields) \cup {"id"}
    IN  [n \in 1..Len(order) |-> EntryDict(table[order[n]], loaded)]

\* ------------------------------------------- the body of the for loop
\* The keys the loop keeps: those that do not start with an underscore.
KeptKeys(d) == {k \in DOMAIN d : ~startswith(k, Underscore)}

\* The loop raises when a kept key containing "geom" holds a value without
\* an ewkt attribute (None.ewkt is an AttributeError).
ConversionFails(d) ==
    \E k \in KeptKeys(d) : contains(k, Geom) /\ ~HasEwkt(d[k])

\* (variant: the comprehension of line 23, which converts nothing)
BuildKwargs_line23(d) == [k \in KeptKeys(d) |-> d[k]]

\* (variant: the keys that contain "geom" are left out of kwargs)
BuildKwargs_omit_geom(d) ==
    [k \in {x \in KeptKeys(d) : ~contains(x, Geom)} |-> d[k]]

\* kwargs as the loop of lines 14-22 leaves it
BuildKwargs(d) ==
    [k \in KeptKeys(d) |-> IF contains(k, Geom) THEN ewkt(d[k]) ELSE d[k]]

\* ConnectionNode(**kwargs): the declarative constructor accepts only names
\* that are attributes of the class (TypeError otherwise) and leaves the
\* other columns unset.
ConstructorAccepts(kw) == DOMAIN kw \subseteq future_fields

ConnectionNode(kw) ==
    [k \in future_fields |-> IF k \in DOMAIN kw THEN kw[k] ELSE None]

\* --------------------------------------------------------- the new store
FreshDb == [tables |-> {}, geometry_columns |-> {}, rows |-> {}]

\* SELECT InitSpatialMetaData(): creates the spatial metadata tables when
\* they are absent and changes nothing when they are present.
InitSpatialMetaData(d) ==
    [d EXCEPT !.tables = @ \cup {"spatial_ref_sys", "geometry_columns"}]

\* (variant: the table is dropped and created again, losing its rows)
create_all_recreate(d) ==
    [d EXCEPT !.tables = @ \cup {"connection_nodes"},
              !.geometry_columns =
                  @ \cup {<<"connection_nodes", "the_geom", srid>>},
              !.rows = {}]

\* Base.metadata.create_all(bind=engine): checkfirst, so a table that exists
\* is left alone; a new connection_nodes table registers its geometry column.
create_all(d) ==
    IF "connection_nodes" \in d.tables THEN d
    ELSE [d EXCEPT !.tables = @ \cup {"connection_nodes"},
                   !.geometry_columns =
                       @ \cup {<<"connection_nodes", "the_geom", srid>>}]

\* (variant: only the spatial metadata is initialised)
create_db_no_tables(d) == InitSpatialMetaData(d)

create_db(d) == create_all(InitSpatialMetaData(d))

DestIds(d) == {r.id : r \in d.rows}

SeqRange(q) == {q[n] : n \in 1..Len(q)}

\* (variant: id declared without primary_key=True, so a taken id is no
\* error)
FlushError_no_pk(d, pending) ==
    IF "connection_nodes" \notin d.tables THEN PyStr("OperationalError")
    ELSE IF \E n \in 1..Len(pending) :
                \E k \in RequiredColumns : pending[n][k] = None
         THEN PyStr("IntegrityError")
         ELSE None

\* The flush of the pending objects: the INSERTs fail when the table is
\* missing, a required column is null, or a primary key is already taken.
FlushError(d, pending) ==
    IF "connection_nodes" \notin d.tables THEN PyStr("OperationalError")
    ELSE IF \/ \E n \in 1..Len(pending) :
                   \E k \in RequiredColumns : pending[n][k] = None
            \/ \E n \in 1..Len(pending) : pending[n].id \in DestIds(d)
            \/ \E m, n \in 1..Len(pending) :
                   m # n /\ pending[m].id = pending[n].id
         THEN PyStr("IntegrityError")
         ELSE None

\* (variant: autocommit, every INSERT stays when a later one fails)
session_commit_no_rollback(d, pending, fault) ==
    IF pending = <<>> THEN [db |-> d, error |-> None]
    ELSE IF FlushError(d, pending) # None
         THEN [db |-> d, error |-> FlushError(d, pending)]
    ELSE IF fault
         THEN [db |-> [d EXCEPT !.rows = @ \cup {pending[1]}],
               error |-> PyStr("OperationalError")]
    ELSE [db |-> [d EXCEPT !.rows = @ \cup SeqRange(pending)], error |-> None]

\* (variant: the rollback of a failed commit empties the table)
session_commit_truncate(d, pending, fault) ==
    IF pending = <<>> THEN [db |-> d, error |-> None]
    ELSE IF FlushError(d, pending) # None
         THEN [db |-> [d EXCEPT !.rows = {}], error |-> FlushError(d, pending)]
    ELSE IF fault
         THEN [db |-> [d EXCEPT !.rows = {}], error |-> PyStr("OperationalError")]
    ELSE [db |-> [d EXCEPT !.rows = @ \cup SeqRange(pending)], error |-> None]

\* session.commit(): the pending objects are flushed in one transaction and
\* the transaction is committed.  When the flush fails, or the store fails
\* (fault) while there is something to write, the transaction is rolled back
\* and the error raised; a commit with nothing pending touches no store.
session_commit(d, pending, fault) ==
    IF pending = <<>> THEN [db |-> d, error |-> None]
    ELSE IF FlushError(d, pending) # None
         THEN [db |-> d, error |-> FlushError(d, pending)]
    ELSE IF fault THEN [db |-> d, error |-> PyStr("OperationalError")]
    ELSE [db |-> [d EXCEPT !.rows = @ \cup SeqRange(pending)], error |-> None]

\* The row an earlier run left in the new store for a legacy row.
MigratedRow(row) == ConnectionNode(BuildKwargs(EntryDict(row, future_fields)))

Populated(table, P) ==
    [create_db(FreshDb) EXCEPT !.rows = {MigratedRow(table[n]) : n \in P}]

Migratable(table) == {n \in DOMAIN table : HasEwkt(table[n].the_geom)}

\* An exception passes through add_nodes and swap_node_data, which have no
\* try/except, to the caller as it was raised.
Propagate(e) == e

FreshSession == [acquired |-> FALSE, closed |-> FALSE, pending |-> <<>>]

\* ------------------------------------------------------------ choice sets
\* legacy/constants.py: the tuples of (code, label) pairs that the models
\* name in choices=, or that the constants declare as choices, in the order
\* they are written.  (PROJ_MAPPING, a projection-name to srid table, is no
\* choice set.)
LEVEE_MATERIAL_CHOICES ==
    << <<PyInt(1), PyStr("zand")>>,
       <<PyInt(2), PyStr("klei")>> >>

\* (variant: a fourth friction type is declared)
FRICTION_TYPE_CHOICES_with_darcy ==
    << <<PyInt(1), PyStr("chezy [m^(1/2)/s]")>>,
       <<PyInt(4), PyStr("manning nm [s/m^(1/2)]")>>,
       <<PyInt(999), PyStr("nikuradse (White-Coolbrook) [mm]")>>,
       <<PyInt(5), PyStr("darcy-weisbach")>> >>

FRICTION_TYPE_CHOICES ==
    << <<PyInt(1), PyStr("chezy [m^(1/2)/s]")>>,
       <<PyInt(4), PyStr("manning nm [s/m^(1/2)]")>>,
       <<PyInt(999), PyStr("nikuradse (White-Coolbrook) [mm]")>> >>

FRICTION_AVG_CHOICES ==
    << <<PyInt(0), PyStr("minimum")>>,
       <<PyInt(1), PyStr("maximum")>> >>

FRICTION_SHALLOW_WATER_CORRECTION_CHOICES ==
    << <<PyInt(0), PyStr("minimum")>>,
       <<PyInt(1), PyStr("maximum")>> >>

LIMITER_SLOPE_CROSSSECTIONAL_AREA_CHOICES ==
    << <<PyInt(0), PyStr("minimum")>>,
       <<PyInt(1), PyStr("maximum")>> >>

LIMITER_SLOPE_FRICTION_CHOICES ==
    << <<PyInt(0), PyStr("minimum")>>,
       <<PyInt(1), PyStr("maximum")>> >>

LIMITER_GRAD_2D ==
    << <<PyInt(0), PyStr("minimum")>>,
       <<PyInt(1), PyStr("maximum")>> >>

LIMITER_GRAD_1D ==
    << <<PyInt(0), PyStr("minimum")>>,
       <<PyInt(1), PyStr("maximum")>> >>

USE_0D_INFLOW_CHOICES ==
    << <<PyInt(0), PyStr("no_inflow")>>,
       <<PyInt(1), PyStr("impervious_inflow")>>,
       <<PyInt(2), PyStr("surface_inflow")>> >>

MATERIAL_TYPE_CHOICES ==
    << <<PyInt(0), PyStr("concrete")>>,
       <<PyInt(1), PyStr("pvc")>>,
       <<PyInt(2), PyStr("stoneware")>>,
       <<PyInt(3), PyStr("cast-iron")>>,
       <<PyInt(4), PyStr("brickwork")>>,
       <<PyInt(5), PyStr("hpe")>>,
       <<PyInt(6), PyStr("hpde")>>,
       <<PyInt(7), PyStr("sheet-iron")>>,
       <<PyInt(8), PyStr("steel")>> >>

WEIR_TYPE_CHOICES ==
    << <<PyInt(1), PyStr("broad crested")>>,
       <<PyInt(2), PyStr("sharp crested")>> >>

FLOW_TYPE_CHOICES ==
    << <<PyInt(1), PyStr("sewer")>>,
       <<PyInt(2), PyStr("open channel")>> >>

LEVEE_CATEGORY_CHOICES ==
    << <<PyInt(1), PyStr("primary")>>,
       <<PyInt(2), PyStr("regional")>>,
       <<PyInt(3), PyStr("c-type")>>,
       <<PyInt(4), PyStr("dry")>>,
       <<PyInt(5), PyStr("other")>> >>

MEASURING_STATION_TYPE_CHOICES ==
    << <<PyInt(1), PyStr("weather")>> >>

FLOW_DIRECTION_CHOICES ==
    << <<PyInt(-1), PyStr("backwards")>>,
       <<PyInt(0), PyStr("both")>>,
       <<PyInt(1), PyStr("forwards")>>,
       <<PyInt(3), PyStr("closed")>> >>

MANHOLE_INDICATOR_CHOICES ==
    << <<PyInt(0), PyStr("manhole")>>,
       <<PyInt(1), PyStr("outlet")>>,
       <<PyInt(2), PyStr("pumpstation")>> >>

MANHOLE_CALCULATION_TYPE_CHOICES ==
    << <<PyInt(0), PyStr("embedded")>>,
       <<PyInt(1), PyStr("isolated")>>,
       <<PyInt(2), PyStr("connected")>> >>

ZOOM_CATEGORY_CHOICES ==
    << <<PyInt(1), PyStr("zoom 1")>>,
       <<PyInt(2), PyStr("zoom 2")>>,
       <<PyInt(3), PyStr("zoom 3")>>,
       <<PyInt(4), PyStr("zoom 4")>>,
       <<PyInt(5), PyStr("zoom 5")>> >>

PIPE_SEWERAGE_TYPE_CHOICES ==
    << <<PyInt(0), PyStr("combined")>>,
       <<PyInt(1), PyStr("stormwater")>>,
       <<PyInt(2), PyStr("wastewater")>>,
       <<PyInt(3), PyStr("transport")>>,
       <<PyInt(4), PyStr("overflow")>>,
       <<PyInt(5), PyStr("sinker")>>,
       <<PyInt(6), PyStr("storage")>>,
       <<PyInt(7), PyStr("storage-settling-tank")>> >>

PIPE_CALCULATION_TYPE_CHOICES ==
    << <<PyInt(0), PyStr("embedded")>>,
       <<PyInt(1), PyStr("isolated")>>,
       <<PyInt(2), PyStr("connected")>> >>

SHAPE_TYPE_CHOICES ==
    << <<PyInt(1), PyStr("rectangle")>>,
       <<PyInt(2), PyStr("circle")>>,
       <<PyInt(3), PyStr("egg")>>,
       <<PyInt(4), PyStr("yz")>>,
       <<PyInt(6), PyStr("tabulated_trapezium")>> >>

ORIFICE_SHAPE_TYPE_CHOICES ==
    << <<PyInt(0), PyStr("round")>>,
       <<PyInt(2), PyStr("rectangle")>> >>

PUMPSTATION_CLASSIFICATION_CHOICES ==
    << <<PyInt(1), PyStr("class 1")>> >>

PUMPSTATION_TYPE_CHOICES ==
    << <<PyInt(1), PyStr("type suction side")>>,
       <<PyInt(2), PyStr("type delivery side")>> >>

BOUNDARY_TYPE_CHOICES ==
    << <<PyInt(1), PyStr("waterlevel")>>,
       <<PyInt(2), PyStr("velocity")>>,
       <<PyInt(3), PyStr("discharge")>> >>

INTEGRATION_METHOD_CHOICES ==
    << <<PyInt(0), PyStr("euler-implicit")>>,
       <<PyInt(1), PyStr("carlson-implicit")>>,
       <<PyInt(2), PyStr("silecki-explicit")>> >>

SURFACE_CLASS_CHOICES ==
    << <<PyStr("gesloten verharding"), PyStr("gesloten verharding")>>,
       <<PyStr("open verharding"), PyStr("open verharding")>>,
       <<PyStr("onverhard"), PyStr("onverhard")>>,
       <<PyStr("half verhard"), PyStr("half verhard")>>,
       <<PyStr("pand"), PyStr("pand")>> >>

SURFACE_INCLINATION_CHOICES ==
    << <<PyStr("hellend"), PyStr("hellend")>>,
       <<PyStr("vlak"), PyStr("vlak")>>,
       <<PyStr("uitgestrekt"), PyStr("uitgestrekt")>> >>

ChoiceSetNames ==
    { "LEVEE_MATERIAL_CHOICES", "FRICTION_TYPE_CHOICES",
      "FRICTION_AVG_CHOICES", "FRICTION_SHALLOW_WATER_CORRECTION_CHOICES",
      "LIMITER_SLOPE_CROSSSECTIONAL_AREA_CHOICES",
      "LIMITER_SLOPE_FRICTION_CHOICES", "LIMITER_GRAD_2D", "LIMITER_GRAD_1D",
      "USE_0D_INFLOW_CHOICES", "MATERIAL_TYPE_CHOICES", "WEIR_TYPE_CHOICES",
      "FLOW_TYPE_CHOICES", "LEVEE_CATEGORY_CHOICES",
      "MEASURING_STATION_TYPE_CHOICES", "FLOW_DIRECTION_CHOICES",
      "MANHOLE_INDICATOR_CHOICES", "MANHOLE_CALCULATION_TYPE_CHOICES",
      "ZOOM_CATEGORY_CHOICES", "PIPE_SEWERAGE_TYPE_CHOICES",
      "PIPE_CALCULATION_TYPE_CHOICES", "SHAPE_TYPE_CHOICES",
      "ORIFICE_SHAPE_TYPE_CHOICES", "PUMPSTATION_CLASSIFICATION_CHOICES",
      "PUMPSTATION_TYPE_CHOICES", "BOUNDARY_TYPE_CHOICES",
      "INTEGRATION_METHOD_CHOICES", "SURFACE_CLASS_CHOICES",
      "SURFACE_INCLINATION_CHOICES" }

\* the choice set of a name
choice_set(name) ==
    CASE name = "LEVEE_MATERIAL_CHOICES" -> LEVEE_MATERIAL_CHOICES
      [] name = "FRICTION_TYPE_CHOICES" -> FRICTION_TYPE_CHOICES
      [] name = "FRICTION_AVG_CHOICES" -> FRICTION_AVG_CHOICES
      [] name = "FRICTION_SHALLOW_WATER_CORRECTION_CHOICES" -> FRICTION_SHALLOW_WATER_CORRECTION_CHOICES
      [] name = "LIMITER_SLOPE_CROSSSECTIONAL_AREA_CHOICES" -> LIMITER_SLOPE_CROSSSECTIONAL_AREA_CHOICES
      [] name = "LIMITER_SLOPE_FRICTION_CHOICES" -> LIMITER_SLOPE_FRICTION_CHOICES
      [] name = "LIMITER_GRAD_2D" -> LIMITER_GRAD_2D
      [] name = "LIMITER_GRAD_1D" -> LIMITER_GRAD_1D
      [] name = "USE_0D_INFLOW_CHOICES" -> USE_0D_INFLOW_CHOICES
      [] name = "MATERIAL_TYPE_CHOICES" -> MATERIAL_TYPE_CHOICES
      [] name = "WEIR_TYPE_CHOICES" -> WEIR_TYPE_CHOICES
      [] name = "FLOW_TYPE_CHOICES" -> FLOW_TYPE_CHOICES
      [] name = "LEVEE_CATEGORY_CHOICES" -> LEVEE_CATEGORY_CHOICES
      [] name = "MEASURING_STATION_TYPE_CHOICES" -> MEASURING_STATION_TYPE_CHOICES
      [] name = "FLOW_DIRECTION_CHOICES" -> FLOW_DIRECTION_CHOICES
      [] name = "MANHOLE_INDICATOR_CHOICES" -> MANHOLE_INDICATOR_CHOICES
      [] name = "MANHOLE_CALCULATION_TYPE_CHOICES" -> MANHOLE_CALCULATION_TYPE_CHOICES
      [] name = "ZOOM_CATEGORY_CHOICES" -> ZOOM_CATEGORY_CHOICES
      [] name = "PIPE_SEWERAGE_TYPE_CHOICES" -> PIPE_SEWERAGE_TYPE_CHOICES
      [] name = "PIPE_CALCULATION_TYPE_CHOICES" -> PIPE_CALCULATION_TYPE_CHOICES
      [] name = "SHAPE_TYPE_CHOICES" -> SHAPE_TYPE_CHOICES
      [] name = "ORIFICE_SHAPE_TYPE_CHOICES" -> ORIFICE_SHAPE_TYPE_CHOICES
      [] name = "PUMPSTATION_CLASSIFICATION_CHOICES" -> PUMPSTATION_CLASSIFICATION_CHOICES
      [] name = "PUMPSTATION_TYPE_CHOICES" -> PUMPSTATION_TYPE_CHOICES
      [] name = "BOUNDARY_TYPE_CHOICES" -> BOUNDARY_TYPE_CHOICES
      [] name = "INTEGRATION_METHOD_CHOICES" -> INTEGRATION_METHOD_CHOICES
      [] name = "SURFACE_CLASS_CHOICES" -> SURFACE_CLASS_CHOICES
      [] name = "SURFACE_INCLINATION_CHOICES" -> SURFACE_INCLINATION_CHOICES


\* A Python dict, kept as its (key, value) pairs in insertion order.
\* d[k] = v
setitem(d, k, v) ==
    IF \E n \in DOMAIN d : d[n][1] = k
    THEN [n \in DOMAIN d |-> IF d[n][1] = k THEN <<k, v>> ELSE d[n]]
    ELSE Append(d, <<k, v>>)

\* dict(pairs): the pairs are entered in order, a later one replacing the
\* value of an earlier one with the same key.
RECURSIVE dict(_)
dict(pairs) ==
    IF pairs = <<>> THEN <<>>
    ELSE LET last == pairs[Len(pairs)]
         IN  setitem(dict(SubSeq(pairs, 1, Len(pairs) - 1)), last[1], last[2])

\* d.items()
items(d) == d

KeyError == [t |-> "KeyError"]

\* d[k]
getitem(d, k) ==
    IF \E n \in DOMAIN d : d[n][1] = k
    THEN d[CHOOSE n \in DOMAIN d : d[n][1] = k][2]
    ELSE KeyError

\* (variant: the pairs are entered as they are, code first)
reversed_dict_as_is(d) == dict(d)

\* reversed_dict(d): dict([(b, a) for a, b in d])
reversed_dict(d) == dict([n \in DOMAIN d |-> <<d[n][2], d[n][1]>>])

\* choices_as_set(d): set([b for a, b in d])
choices_as_set(d) == {d[n][2] : n \in DOMAIN d}

\* the codes of a choice set
codes(d) == {d[n][1] : n \in DOMAIN d}

MANHOLE_INDICATOR_LOOKUP == reversed_dict(MANHOLE_INDICATOR_CHOICES)

MANHOLE_CALCULATION_TYPE_LOOKUP ==
    reversed_dict(MANHOLE_CALCULATION_TYPE_CHOICES)

SHAPE_MAP == dict(SHAPE_TYPE_CHOICES)

SHAPE_MAP_LOOKUP == reversed_dict(items(SHAPE_MAP))

\* the three lookup tables and the choice set each is built from
LookupNames ==
    {"MANHOLE_INDICATOR_LOOKUP", "MANHOLE_CALCULATION_TYPE_LOOKUP",
     "SHAPE_MAP_LOOKUP"}

lookup_table(name) ==
    CASE name = "MANHOLE_INDICATOR_LOOKUP" -> MANHOLE_INDICATOR_LOOKUP
      [] name = "MANHOLE_CALCULATION_TYPE_LOOKUP" ->
            MANHOLE_CALCULATION_TYPE_LOOKUP
      [] name = "SHAPE_MAP_LOOKUP" -> SHAPE_MAP_LOOKUP

lookup_source(name) ==
    CASE name = "MANHOLE_INDICATOR_LOOKUP" -> "MANHOLE_INDICATOR_CHOICES"
      [] name = "MANHOLE_CALCULATION_TYPE_LOOKUP" ->
            "MANHOLE_CALCULATION_TYPE_CHOICES"
      [] name = "SHAPE_MAP_LOOKUP" -> "SHAPE_TYPE_CHOICES"

\* the labels of all choice sets, and a label that no choice set declares
AllLabels ==
    UNION {choices_as_set(choice_set(name)) : name \in ChoiceSetNames}

UnknownLabel == PyStr("unknown")

\* The named codes of the friction types and the materials.
FRICTION_TYPE ==
    [CHEZY |-> PyInt(1),
     MANNING |-> PyInt(4),
     NIKURADSE |-> PyInt(999)]

MATERIAL_TYPE ==
    [CONCRETE |-> PyInt(0),
     PVC |-> PyInt(1),
     STONEWARE |-> PyInt(2),
     CAST_IRON |-> PyInt(3),
     BRICKWORK |-> PyInt(4),
     HPE |-> PyInt(5),
     HPDE |-> PyInt(6),
     SHEET_IRON |-> PyInt(7),
     STEEL |-> PyInt(8)]

\* MATERIAL_ROUGHNESS: a dict of dicts, friction type -> material ->
\* roughness.  A float literal is kept as its digits over a power of ten.
MATERIAL_ROUGHNESS ==
    dict(<<
      <<FRICTION_TYPE.CHEZY,
        dict(<<
             <<MATERIAL_TYPE.CONCRETE, PyInt(47)>>,
             <<MATERIAL_TYPE.PVC, PyInt(62)>>,
             <<MATERIAL_TYPE.STONEWARE, PyInt(60)>>,
             <<MATERIAL_TYPE.CAST_IRON, PyInt(50)>>,
             <<MATERIAL_TYPE.BRICKWORK, PyInt(42)>>,
             <<MATERIAL_TYPE.HPE, PyInt(62)>>,
             <<MATERIAL_TYPE.HPDE, PyInt(62)>>,
             <<MATERIAL_TYPE.SHEET_IRON, PyInt(49)>>,
             <<MATERIAL_TYPE.STEEL, PyInt(52)>> >>)>>,
      <<FRICTION_TYPE.MANNING,
        dict(<<
             <<MATERIAL_TYPE.CONCRETE, PyFloat(<<145, 10000>>)>>,
             <<MATERIAL_TYPE.PVC, PyFloat(<<110, 10000>>)>>,
             <<MATERIAL_TYPE.STONEWARE, PyFloat(<<115, 10000>>)>>,
             <<MATERIAL_TYPE.CAST_IRON, PyFloat(<<135, 10000>>)>>,
             <<MATERIAL_TYPE.BRICKWORK, PyFloat(<<160, 10000>>)>>,
             <<MATERIAL_TYPE.HPE, PyFloat(<<110, 10000>>)>>,
             <<MATERIAL_TYPE.HPDE, PyFloat(<<110, 10000>>)>>,
             <<MATERIAL_TYPE.SHEET_IRON, PyFloat(<<135, 10000>>)>>,
             <<MATERIAL_TYPE.STEEL, PyFloat(<<130, 10000>>)>> >>)>>,
      <<FRICTION_TYPE.NIKURADSE,
        dict(<<
             <<MATERIAL_TYPE.CONCRETE, PyFloat(<<300, 100>>)>>,
             <<MATERIAL_TYPE.PVC, PyFloat(<<40, 100>>)>>,
             <<MATERIAL_TYPE.STONEWARE, PyFloat(<<50, 100>>)>>,
             <<MATERIAL_TYPE.CAST_IRON, PyFloat(<<200, 100>>)>>,
             <<MATERIAL_TYPE.BRICKWORK, PyFloat(<<500, 100>>)>>,
             <<MATERIAL_TYPE.HPE, PyFloat(<<40, 100>>)>>,
             <<MATERIAL_TYPE.HPDE, PyFloat(<<40, 100>>)>>,
             <<MATERIAL_TYPE.SHEET_IRON, PyFloat(<<200, 100>>)>>,
             <<MATERIAL_TYPE.STEEL, PyFloat(<<150, 100>>)>> >>)>> >>)

\* (variant: round and rectangular "put right", 1 to 1 and 2 to 2)
CULVERT_MAPPING_unswapped ==
    dict(<< <<PyInt(1), PyInt(1)>>,
            <<PyInt(2), PyInt(2)>>,
            <<PyInt(3), PyInt(3)>>,
            <<PyInt(4), PyInt(4)>>,
            <<PyInt(5), PyInt(5)>>,
            <<PyInt(6), PyInt(6)>>,
            <<PyInt(99), PyInt(2)>> >>)

\* CULVERT_MAPPING, "Mapping from import to 3Di"
CULVERT_MAPPING ==
    dict(<< <<PyInt(1), PyInt(2)>>,
            <<PyInt(2), PyInt(1)>>,
            <<PyInt(3), PyInt(3)>>,
            <<PyInt(4), PyInt(4)>>,
            <<PyInt(5), PyInt(5)>>,
            <<PyInt(6), PyInt(6)>>,
            <<PyInt(99), PyInt(2)>> >>)

\* the codes looked up in CULVERT_MAPPING
ImportCodes == {PyInt(n) : n \in (0..8) \cup {98, 99, 100}}

\* ------------------------------------------------------ enumerated fields
\* legacy/models.py: every field declared with choices=, as <<model, field>>.
EnumeratedFields ==
    { <<"V2Levee", "material">>,
      <<"V2OneDeeBoundaryCondition", "boundary_type">>,
      <<"V2Manhole", "manhole_indicator">>,
      <<"V2Manhole", "calculation_type">>, <<"V2Manhole", "zoom_category">>,
      <<"V2Channel", "calculation_type">>, <<"V2Channel", "zoom_category">>,
      <<"V2CrossSectionDefinition", "shape">>,
      <<"V2CrossSectionLocation", "friction_type">>,
      <<"V2Pipe", "sewerage_type">>, <<"V2Pipe", "calculation_type">>,
      <<"V2Pipe", "friction_type">>, <<"V2Pipe", "material">>,
      <<"V2Pipe", "zoom_category">>,
      <<"V2ImperviousSurface", "surface_class">>,
      <<"V2ImperviousSurface", "surface_inclination">>,
      <<"V2ImperviousSurface", "zoom_category">>,
      <<"V2Orifice", "friction_type">>,
      <<"V2Pumpstation", "classification">>, <<"V2Pumpstation", "type">>,
      <<"V2Culvert", "calculation_type">>, <<"V2Culvert", "friction_type">>,
      <<"V2Culvert", "zoom_category">>,
      <<"V2NumericalSettings", "frict_shallow_water_correction">>,
      <<"V2NumericalSettings", "integration_method">>,
      <<"V2NumericalSettings", "limiter_grad_1d">>,
      <<"V2NumericalSettings", "limiter_grad_2d">>,
      <<"V2NumericalSettings", "limiter_slope_crossectional_area_2d">>,
      <<"V2NumericalSettings", "limiter_slope_friction_2d">>,
      <<"V2GlobalSettings", "frict_type">>,
      <<"V2GlobalSettings", "frict_avg">>,
      <<"V2GlobalSettings", "use_0d_inflow">>, <<"V2Weir", "friction_type">> }

\* the choices= of an enumerated field: the name of its choice set
field_choices(mf) ==
    CASE mf \in { <<"V2Levee", "material">> } ->
            "LEVEE_MATERIAL_CHOICES"
      [] mf \in { <<"V2OneDeeBoundaryCondition", "boundary_type">> } ->
            "BOUNDARY_TYPE_CHOICES"
      [] mf \in { <<"V2Manhole", "manhole_indicator">> } ->
            "MANHOLE_INDICATOR_CHOICES"
      [] mf \in { <<"V2Manhole", "calculation_type">> } ->
            "MANHOLE_CALCULATION_TYPE_CHOICES"
      [] mf \in { <<"V2Manhole", "zoom_category">>,
               <<"V2Channel", "zoom_category">>,
               <<"V2Pipe", "zoom_category">>,
               <<"V2ImperviousSurface", "zoom_category">>,
               <<"V2Culvert", "zoom_category">> } ->
            "ZOOM_CATEGORY_CHOICES"
      [] mf \in { <<"V2Channel", "calculation_type">>,
               <<"V2Pipe", "calculation_type">>,
               <<"V2Culvert", "calculation_type">> } ->
            "PIPE_CALCULATION_TYPE_CHOICES"
      [] mf \in { <<"V2CrossSectionDefinition", "shape">> } ->
            "SHAPE_TYPE_CHOICES"
      [] mf \in { <<"V2CrossSectionLocation", "friction_type">>,
               <<"V2Pipe", "friction_type">>,
               <<"V2Orifice", "friction_type">>,
               <<"V2Culvert", "friction_type">>,
               <<"V2GlobalSettings", "frict_type">>,
               <<"V2Weir", "friction_type">> } ->
            "FRICTION_TYPE_CHOICES"
      [] mf \in { <<"V2Pipe", "sewerage_type">> } ->
            "PIPE_SEWERAGE_TYPE_CHOICES"
      [] mf \in { <<"V2Pipe", "material">> } ->
            "MATERIAL_TYPE_CHOICES"
      [] mf \in { <<"V2ImperviousSurface", "surface_class">> } ->
            "SURFACE_CLASS_CHOICES"
      [] mf \in { <<"V2ImperviousSurface", "surface_inclination">> } ->
            "SURFACE_INCLINATION_CHOICES"
      [] mf \in { <<"V2Pumpstation", "classification">> } ->
            "PUMPSTATION_CLASSIFICATION_CHOICES"
      [] mf \in { <<"V2Pumpstation", "type">> } ->
            "PUMPSTATION_TYPE_CHOICES"
      [] mf \in { <<"V2NumericalSettings", "frict_shallow_water_correction">> } ->
            "FRICTION_SHALLOW_WATER_CORRECTION_CHOICES"
      [] mf \in { <<"V2NumericalSettings", "integration_method">> } ->
            "INTEGRATION_METHOD_CHOICES"
      [] mf \in { <<"V2NumericalSettings", "limiter_grad_1d">> } ->
            "LIMITER_GRAD_1D"
      [] mf \in { <<"V2NumericalSettings", "limiter_grad_2d">> } ->
            "LIMITER_GRAD_2D"
      [] mf \in { <<"V2NumericalSettings", "limiter_slope_crossectional_area_2d">> } ->
            "LIMITER_SLOPE_CROSSSECTIONAL_AREA_CHOICES"
      [] mf \in { <<"V2NumericalSettings", "limiter_slope_friction_2d">> } ->
            "LIMITER_SLOPE_FRICTION_CHOICES"
      [] mf \in { <<"V2GlobalSettings", "frict_avg">> } ->
            "FRICTION_AVG_CHOICES"
      [] mf \in { <<"V2GlobalSettings", "use_0d_inflow">> } ->
            "USE_0D_INFLOW_CHOICES"

\* the enumerated fields declared null=True
NullFields ==
    { <<"V2Levee", "material">>,
      <<"V2OneDeeBoundaryCondition", "boundary_type">>,
      <<"V2Manhole", "manhole_indicator">>,
      <<"V2Manhole", "calculation_type">>, <<"V2Manhole", "zoom_category">>,
      <<"V2Channel", "calculation_type">>, <<"V2Channel", "zoom_category">>,
      <<"V2CrossSectionDefinition", "shape">>,
      <<"V2CrossSectionLocation", "friction_type">>,
      <<"V2Pipe", "sewerage_type">>, <<"V2Pipe", "calculation_type">>,
      <<"V2Pipe", "friction_type">>, <<"V2Pipe", "material">>,
      <<"V2Pipe", "zoom_category">>,
      <<"V2ImperviousSurface", "zoom_category">>,
      <<"V2Orifice", "friction_type">>,
      <<"V2Pumpstation", "classification">>, <<"V2Pumpstation", "type">>,
      <<"V2Culvert", "calculation_type">>, <<"V2Culvert", "friction_type">>,
      <<"V2Culvert", "zoom_category">>,
      <<"V2NumericalSettings", "frict_shallow_water_correction">>,
      <<"V2NumericalSettings", "integration_method">>,
      <<"V2NumericalSettings", "limiter_grad_1d">>,
      <<"V2NumericalSettings", "limiter_grad_2d">>,
      <<"V2NumericalSettings", "limiter_slope_crossectional_area_2d">>,
      <<"V2NumericalSettings", "limiter_slope_friction_2d">>,
      <<"V2GlobalSettings", "frict_type">>, <<"V2Weir", "friction_type">> }

\* the enumerated fields declared blank=True
BlankFields ==
    { <<"V2Levee", "material">>, <<"V2Channel", "calculation_type">>,
      <<"V2Pipe", "sewerage_type">>, <<"V2Pipe", "calculation_type">>,
      <<"V2Culvert", "calculation_type">>,
      <<"V2NumericalSettings", "frict_shallow_water_correction">>,
      <<"V2NumericalSettings", "integration_method">>,
      <<"V2NumericalSettings", "limiter_grad_1d">>,
      <<"V2NumericalSettings", "limiter_grad_2d">>,
      <<"V2NumericalSettings", "limiter_slope_crossectional_area_2d">>,
      <<"V2NumericalSettings", "limiter_slope_friction_2d">>,
      <<"V2GlobalSettings", "frict_type">> }


\* ------------------------------------------------------- model validation
\* The values a field counts as empty.
EMPTY_VALUES == {None, PyStr("")}

ValidationError == PyStr("ValidationError")
IntegrityError == PyStr("IntegrityError")

\* the codes of the choice set of an enumerated field
field_codes(mf) == codes(choice_set(field_choices(mf)))

\* A value of the type of the field's codes that is none of them.
Outside(mf) ==
    LET cs == field_codes(mf)
        some == CHOOSE x \in cs : TRUE
    IN  IF some.t = "int"
        THEN PyInt(1 + (CHOOSE x \in {y.v : y \in cs} :
                            \A y \in cs : y.v <= x))
        ELSE PyStr("other")

\* the values an instance is constructed with for an enumerated field
FieldValues(mf) == field_codes(mf) \cup {Outside(mf), None}

\* (variant: validation that does not look at the choices of the field)
full_clean_no_choices(mf, value) ==
    IF mf \in BlankFields /\ value \in EMPTY_VALUES THEN None
    ELSE IF value = None /\ mf \notin NullFields THEN ValidationError
    ELSE IF value \in EMPTY_VALUES THEN ValidationError
    ELSE None

\* instance.full_clean(), for one field declared with choices=: a blank
\* field holding an empty value is skipped; a value that is not empty must
\* be one of the codes; None needs null=True and an empty value blank=True.
full_clean(mf, value) ==
    IF mf \in BlankFields /\ value \in EMPTY_VALUES THEN None
    ELSE IF value \notin EMPTY_VALUES /\ value \notin field_codes(mf)
         THEN ValidationError
    ELSE IF value = None /\ mf \notin NullFields THEN ValidationError
    ELSE IF value \in EMPTY_VALUES THEN ValidationError
    ELSE None

\* instance.save(), for one field declared with choices=: save() calls no
\* validation and the column has no constraint on its codes; the column of a
\* field without null=True is NOT NULL.
save(mf, value) ==
    IF value = None /\ mf \notin NullFields THEN IntegrityError ELSE None

\* ------------------------------------------------- the legacy relations
\* legacy/models.py: the models that declare a foreign key or are the
\* target of one, and the five control variants V2Control names by
\* (control_type, control_id).
Models ==
    { "V2ControlTable", "V2ControlPID", "V2ControlDelta", "V2ControlMemory",
      "V2ControlTimed", "V2ControlMeasureGroup", "V2ControlMeasureMap",
      "V2ControlGroup", "V2Control", "V2Levee", "V2CalculationPoint",
      "V2ConnectedPoint", "V2ConnectionNode", "V2OneDeeBoundaryCondition",
      "V2Manhole", "V2Channel", "V2CrossSectionDefinition",
      "V2CrossSectionLocation", "V2OneDeeLateral", "V2Pipe",
      "V2SurfaceParameters", "V2Surface", "V2SurfaceMap",
      "V2ImperviousSurface", "V2Orifice", "V2Pumpstation", "V2Culvert",
      "V2NumericalSettings", "V2Interflow", "V2SimpleInfiltration",
      "V2Groundwater", "V2GlobalSettings", "V2Weir", "V2Windshielding",
      "V2ImperviousSurfaceMap", "V2AggregationSettings" }

\* Every ForeignKey of legacy/models.py: the model that declares it, the
\* field, the target, on_delete, and whether it is declared null=True and
\* unique=True.
ForeignKeys ==
    { [model |-> "V2ControlMeasureMap", field |-> "measure_group",
       target |-> "V2ControlMeasureGroup", on_delete |-> "CASCADE",
       null |-> TRUE, unique |-> FALSE],
      [model |-> "V2Control", field |-> "control_group",
       target |-> "V2ControlGroup", on_delete |-> "CASCADE",
       null |-> TRUE, unique |-> FALSE],
      [model |-> "V2Control", field |-> "measure_group",
       target |-> "V2ControlMeasureGroup", on_delete |-> "CASCADE",
       null |-> TRUE, unique |-> FALSE],
      [model |-> "V2ConnectedPoint", field |-> "calculation_pnt",
       target |-> "V2CalculationPoint", on_delete |-> "CASCADE",
       null |-> FALSE, unique |-> FALSE],
      [model |-> "V2ConnectedPoint", field |-> "levee",
       target |-> "V2Levee", on_delete |-> "CASCADE",
       null |-> TRUE, unique |-> FALSE],
      [model |-> "V2OneDeeBoundaryCondition", field |-> "connection_node",
       target |-> "V2ConnectionNode", on_delete |-> "CASCADE",
       null |-> FALSE, unique |-> TRUE],
      [model |-> "V2Manhole", field |-> "connection_node",
       target |-> "V2ConnectionNode", on_delete |-> "CASCADE",
       null |-> FALSE, unique |-> TRUE],
      [model |-> "V2Channel", field |-> "connection_node_start",
       target |-> "V2ConnectionNode", on_delete |-> "CASCADE",
       null |-> TRUE, unique |-> FALSE],
      [model |-> "V2Channel", field |-> "connection_node_end",
       target |-> "V2ConnectionNode", on_delete |-> "CASCADE",
       null |-> TRUE, unique |-> FALSE],
      [model |-> "V2CrossSectionLocation", field |-> "channel",
       target |-> "V2Channel", on_delete |-> "CASCADE",
       null |-> TRUE, unique |-> FALSE],
      [model |-> "V2CrossSectionLocation", field |-> "definition",
       target |-> "V2CrossSectionDefinition", on_delete |-> "CASCADE",
       null |-> TRUE, unique |-> FALSE],
      [model |-> "V2OneDeeLateral", field |-> "connection_node",
       target |-> "V2ConnectionNode", on_delete |-> "CASCADE",
       null |-> FALSE, unique |-> FALSE],
      [model |-> "V2Pipe", field |-> "cross_section_definition",
       target |-> "V2CrossSectionDefinition", on_delete |-> "CASCADE",
       null |-> TRUE, unique |-> FALSE],
      [model |-> "V2Pipe", field |-> "connection_node_start",
       target |-> "V2ConnectionNode", on_delete |-> "CASCADE",
       null |-> TRUE, unique |-> FALSE],
      [model |-> "V2Pipe", field |-> "connection_node_end",
       target |-> "V2ConnectionNode", on_delete |-> "CASCADE",
       null |-> TRUE, unique |-> FALSE],
      [model |-> "V2Surface", field |-> "surface_parameters",
       target |-> "V2SurfaceParameters", on_delete |-> "CASCADE",
       null |-> TRUE, unique |-> FALSE],
      [model |-> "V2SurfaceMap", field |-> "connection_node",
       target |-> "V2ConnectionNode", on_delete |-> "CASCADE",
       null |-> FALSE, unique |-> FALSE],
      [model |-> "V2Orifice", field |-> "cross_section_definition",
       target |-> "V2CrossSectionDefinition", on_delete |-> "CASCADE",
       null |-> TRUE, unique |-> FALSE],
      [model |-> "V2Orifice", field |-> "connection_node_start",
       target |-> "V2ConnectionNode", on_delete |-> "CASCADE",
       null |-> TRUE, unique |-> FALSE],
      [model |-> "V2Orifice", field |-> "connection_node_end",
       target |-> "V2ConnectionNode", on_delete |-> "CASCADE",
       null |-> TRUE, unique |-> FALSE],
      [model |-> "V2Pumpstation", field |-> "connection_node_start",
       target |-> "V2ConnectionNode", on_delete |-> "CASCADE",
       null |-> TRUE, unique |-> FALSE],
      [model |-> "V2Pumpstation", field |-> "connection_node_end",
       target |-> "V2ConnectionNode", on_delete |-> "CASCADE",
       null |-> TRUE, unique |-> FALSE],
      [model |-> "V2Culvert", field |-> "cross_section_definition",
       target |-> "V2CrossSectionDefinition", on_delete |-> "CASCADE",
       null |-> TRUE, unique |-> FALSE],
      [model |-> "V2Culvert", field |-> "connection_node_start",
       target |-> "V2ConnectionNode", on_delete |-> "CASCADE",
       null |-> TRUE, unique |-> FALSE],
      [model |-> "V2Culvert", field |-> "connection_node_end",
       target |-> "V2ConnectionNode", on_delete |-> "CASCADE",
       null |-> TRUE, unique |-> FALSE],
      [model |-> "V2GlobalSettings", field |-> "control_group",
       target |-> "V2ControlGroup", on_delete |-> "CASCADE",
       null |-> TRUE, unique |-> FALSE],
      [model |-> "V2GlobalSettings", field |-> "numerical_settings",
       target |-> "V2NumericalSettings", on_delete |-> "CASCADE",
       null |-> FALSE, unique |-> FALSE],
      [model |-> "V2GlobalSettings", field |-> "groundwater_settings",
       target |-> "V2Groundwater", on_delete |-> "CASCADE",
       null |-> TRUE, unique |-> FALSE],
      [model |-> "V2GlobalSettings", field |-> "simple_infiltration_settings",
       target |-> "V2SimpleInfiltration", on_delete |-> "CASCADE",
       null |-> TRUE, unique |-> FALSE],
      [model |-> "V2GlobalSettings", field |-> "interflow_settings",
       target |-> "V2Interflow", on_delete |-> "CASCADE",
       null |-> TRUE, unique |-> FALSE],
      [model |-> "V2Weir", field |-> "cross_section_definition",
       target |-> "V2CrossSectionDefinition", on_delete |-> "CASCADE",
       null |-> TRUE, unique |-> FALSE],
      [model |-> "V2Weir", field |-> "connection_node_start",
       target |-> "V2ConnectionNode", on_delete |-> "CASCADE",
       null |-> TRUE, unique |-> FALSE],
      [model |-> "V2Weir", field |-> "connection_node_end",
       target |-> "V2ConnectionNode", on_delete |-> "CASCADE",
       null |-> TRUE, unique |-> FALSE],
      [model |-> "V2Windshielding", field |-> "channel",
       target |-> "V2Channel", on_delete |-> "CASCADE",
       null |-> TRUE, unique |-> FALSE],
      [model |-> "V2ImperviousSurfaceMap", field |-> "impervious_surface",
       target |-> "V2ImperviousSurface", on_delete |-> "CASCADE",
       null |-> TRUE, unique |-> FALSE],
      [model |-> "V2ImperviousSurfaceMap", field |-> "connection_node",
       target |-> "V2ConnectionNode", on_delete |-> "CASCADE",
       null |-> FALSE, unique |-> FALSE],
      [model |-> "V2AggregationSettings", field |-> "global_settings",
       target |-> "V2GlobalSettings", on_delete |-> "CASCADE",
       null |-> TRUE, unique |-> FALSE] }


\* the foreign keys a model declares, and their field names
ForeignKeysOf == [m \in Models |-> {k \in ForeignKeys : k.model = m}]
fk(m) == ForeignKeysOf[m]
fk_fields(m) == {k.field : k \in fk(m)}

\* V2Control: "control type: table, delta, pid, timed or memory" and
\* control_id, "pk of the control"; the table each type stands for.
ControlTypes == {"table", "pid", "delta", "memory", "timed"}

control_table(t) ==
    CASE t = "table" -> "V2ControlTable"
      [] t = "pid" -> "V2ControlPID"
      [] t = "delta" -> "V2ControlDelta"
      [] t = "memory" -> "V2ControlMemory"
      [] t = "timed" -> "V2ControlTimed"

ControlVariants == {control_table(t) : t \in ControlTypes}

\* The models of two foreign keys of which the second is a key of the
\* first one's model or of its target (a model with its targets; a target, a
\* model that refers to it and a model that refers to that), and every set
\* of models within such a group.  The longest chain of foreign keys in the
\* schema has two keys (a V2CrossSectionLocation refers to a V2Channel,
\* which refers to a V2ConnectionNode).
KeyModels(k) == {k.model, k.target}

ModelGroups ==
    UNION {SUBSET (KeyModels(p[1]) \cup KeyModels(p[2])) :
              p \in {q \in ForeignKeys \X ForeignKeys :
                        q[2].model \in KeyModels(q[1])}}

\* The value of a key column: NULL or a primary key.
Keys == {None} \cup {PyInt(n) : n \in 1..MaxStore}

\* V2ControlMeasureMap.weight: DecimalField(max_digits=3, decimal_places=2,
\* null=True), a number of hundredths from -999 to 999 or NULL.  "weight
\* should always be between 0 and 1" is a comment; the field has no
\* validator.
Decimal(h) == [t |-> "Decimal", v |-> h]

Weights == {None} \cup {Decimal(h) : h \in {-50, 0, 50, 100}}

\* The columns of a row besides its keys: for V2Control the pair
\* control_type (a CharField without choices) and control_id (an
\* IntegerField); for V2ControlMeasureMap the weight; nothing for the other
\* models.
Attrs(m) ==
    IF m = "V2Control"
    THEN [control_type : {PyStr(t) : t \in ControlTypes}
                             \cup {PyStr("other"), None},
          control_id : Keys]
    ELSE IF m = "V2ControlMeasureMap"
    THEN [weight : Weights]
    ELSE {<<>>}

\* the columns left out: they are null=True
NoAttrs(m) ==
    IF m = "V2Control"
    THEN [control_type |-> None, control_id |-> None]
    ELSE IF m = "V2ControlMeasureMap"
    THEN [weight |-> None]
    ELSE <<>>

Exists(S, m, n) == \E r \in S : r.model = m /\ r.id = n

\* the primary key the table gives a new row
NextId(S, m) == CHOOSE n \in 1..(MaxStore + 1) :
                    /\ ~Exists(S, m, n)
                    /\ \A k \in 1..(n - 1) : Exists(S, m, k)

\* The keys a new row of model m is given: each NULL, the key of a row of
\* the target, or the target's next key, which no row has.
RefChoices(S, m) ==
    {f \in [fk_fields(m) -> Keys] :
        \A k \in fk(m) :
            \/ f[k.field] = None
            \/ Exists(S, k.target, f[k.field].v)
            \/ f[k.field].v = NextId(S, k.target)}

\* (variant: the keys declared without unique=True)
insert_error_no_unique(S, row) ==
    IF \E k \in fk(row.model) :
          LET ref == row.refs[k.field] IN
            \/ ref = None /\ ~k.null
            \/ ref # None /\ ~Exists(S, k.target, ref.v)
    THEN IntegrityError
    ELSE None

\* The INSERT of a row fails when a key column without null=True is NULL,
\* when a key refers to no row of its target, or when a unique key is taken.
insert_error(S, row) ==
    IF \E k \in fk(row.model) :
          LET ref == row.refs[k.field] IN
            \/ ref = None /\ ~k.null
            \/ ref # None /\ ~Exists(S, k.target, ref.v)
            \/ /\ k.unique
               /\ \E r \in S : r.model = row.model /\ r.refs[k.field] = ref
    THEN IntegrityError
    ELSE None

\* the rows of S that refer to a row of D through a CASCADE foreign key
Referrers(S, D) ==
    {r \in S : \E k \in fk(r.model) : \E d \in D :
        /\ k.on_delete = "CASCADE"
        /\ k.target = d.model
        /\ r.refs[k.field] = PyInt(d.id)}

\* (variant: only the rows that refer to the deleted row itself are taken)
Collect_direct(S, D) == D \cup Referrers(S, D)

\* (variant: the pair (control_type, control_id) taken for a relation that
\* cascades, so the rule a deleted V2Control names goes with it)
Addressed(S, D) ==
    {v \in S : \E r \in D :
        /\ r.model = "V2Control"
        /\ r.attrs.control_type \in {PyStr(t) : t \in ControlTypes}
        /\ v.model = control_table(r.attrs.control_type.v)
        /\ r.attrs.control_id = PyInt(v.id)}

RECURSIVE Collect_addressed(_, _)
Collect_addressed(S, D) ==
    LET more == (Referrers(S, D) \cup Addressed(S, D)) \ D
    IN  IF more = {} THEN D ELSE Collect_addressed(S, D \cup more)

\* The rows a delete of D removes: D, the rows that refer to a row of D
\* through a CASCADE foreign key, the rows that refer to those, and so on.
RECURSIVE Collect(_, _)
Collect(S, D) ==
    LET more == Referrers(S, D) \ D
    IN  IF more = {} THEN D ELSE Collect(S, D \cup more)

\* ------------------------------------------- the script as one function
\* swap_node_data() from its first line to its last: what it leaves in the
\* new store and what it raises, given the legacy table, the store it
\* finds, and whether the store fails at commit.
swap_node_data(table, d, fault) ==
    LET db == create_db(d)
        q == only(table, future_fields)
        stops == {n \in 1..Len(q) :
                     \/ ConversionFails(q[n])
                     \/ ~ConstructorAccepts(BuildKwargs(q[n]))}
        first == CHOOSE n \in stops : \A m \in stops : n <= m
    IN  IF stops # {}
        THEN [db |-> db,
              error |-> IF ConversionFails(q[first])
                        THEN PyStr("AttributeError")
                        ELSE PyStr("TypeError")]
        ELSE session_commit(db,
                            [n \in 1..Len(q) |->
                                 ConnectionNode(BuildKwargs(q[n]))],
                            fault)

\* The fields of V2ConnectionNode that ConnectionNode has no column for, and
\* the tables that differ from a table in the values of those fields only.
LegacyOnlyFields == LegacyFields \ future_fields

OtherCodes == {PyStr("c1"), PyStr("c2")}

LegacyOnlyValues ==
    [code : OtherCodes, the_geom_linestring : LineStrings \cup {None}]

Variants(table) ==
    {[n \in DOMAIN table |->
         [table[n] EXCEPT !.code = f[n].code,
                          !.the_geom_linestring = f[n].the_geom_linestring]] :
       f \in [DOMAIN table -> LegacyOnlyValues]}


\* A set of rows is a content of the tables when no two rows of a model
\* have the same primary key and each row could have been inserted beside
\* the others.
Intact(S) ==
    /\ \A r1, r2 \in S : (r1.model = r2.model /\ r1.id = r2.id) => r1 = r2
    /\ \A r \in S : insert_error(S \ {r}, r) = None

\* a row of model m with the given keys, its other keys NULL
Row(m, n, keys, attrs) ==
    [model |-> m, id |-> n,
     refs |-> [f \in fk_fields(m) |->
                 IF f \in DOMAIN keys THEN keys[f] ELSE None],
     attrs |-> attrs]

\* Rows around control groups: two groups; the numerical settings a
\* V2GlobalSettings must have; a V2GlobalSettings and a V2Control with no
\* group or either group, the V2Control naming rule 1 of v2_control_table
\* or of v2_control_pid; a V2AggregationSettings with or without global
\* settings; and those two rules.
ControlGroupRows ==
    {Row("V2ControlGroup", g, <<>>, <<>>) : g \in 1..2}
    \cup {Row("V2NumericalSettings", 1, <<>>, <<>>)}
    \cup {Row("V2GlobalSettings", 1,
              [control_group |-> g, numerical_settings |-> PyInt(1)], <<>>) :
            g \in {None, PyInt(1), PyInt(2)}}
    \cup {Row("V2AggregationSettings", 1, [global_settings |-> gs], <<>>) :
            gs \in {None, PyInt(1)}}
    \cup {Row("V2Control", 1, [control_group |-> g],
              [control_type |-> PyStr(t), control_id |-> PyInt(1)]) :
            g \in {None, PyInt(1), PyInt(2)}, t \in {"table", "pid"}}
    \cup {Row("V2ControlTable", 1, <<>>, <<>>),
          Row("V2ControlPID", 1, <<>>, <<>>)}

ControlGroupStores == {S \in SUBSET ControlGroupRows : Intact(S)}

\* ------------------------------------------------------------------ state
VARIABLES
    legacy,     \* the legacy v2_connection_nodes table: id -> row
    dest,       \* the committed contents of the new store
    pc,         \* position of the script
    run,        \* number of runs of swap_node_data started
    qs,         \* the evaluated queryset
    i,          \* index in qs of the next entry of the for loop
    kwargs,     \* kwargs of the entry converted last
    c,          \* the list of constructed ConnectionNode objects
    session,    \* the session of add_nodes
    raised,     \* the exception at the place it was raised, or None
    result,     \* what the caller of swap_node_data got: None while running
    dest0,      \* dest when the current run started
    calls,      \* how often add_all and commit were called in this run
    store,      \* the rows of the legacy schema's tables
    made,       \* the legacy model instance constructed last
    found,      \* the choice-set lookup made last
    deleted,    \* the models of the rows the last delete removed
    sessions,   \* the sessions SqliteDatabase._session() has made
    blocks,     \* the with-blocks of SqliteDatabase.session() that are open
    caller      \* what the code around the with-block left last has got

\* the state of the copy script, and the state of the legacy schema
migration_vars == <<legacy, dest, pc, run, qs, i, kwargs, c, session, raised,
                    result, dest0, calls>>
schema_vars == <<store, made, found, deleted>>
scope_vars == <<sessions, blocks, caller>>
vars == <<migration_vars, schema_vars, scope_vars>>

NoCalls == [add_all |-> 0, commit |-> 0]

\* The legacy schema before anything is stored, constructed or looked up.
SchemaInit ==
    /\ store = {}
    /\ made = None
    /\ found = None
    /\ deleted = {}

\* No session of SqliteDatabase has been made and no with-block entered.
ScopeInit ==
    /\ sessions = <<>>
    /\ blocks = <<>>
    /\ caller = None

Init ==
    /\ \E S \in SUBSET Ids : \E f \in [S -> LegacyBody] :
           legacy = [n \in S |-> LegacyRow(n, f[n])]
    /\ dest \in {FreshDb} \cup
                {Populated(legacy, P) : P \in SUBSET Migratable(legacy)}
    /\ pc = "idle"
    /\ run = 0
    /\ qs = <<>>
    /\ i = 1
    /\ kwargs = None
    /\ c = <<>>
    /\ session = FreshSession
    /\ raised = None
    /\ result = None
    /\ dest0 = dest
    /\ calls = NoCalls
    /\ SchemaInit
    /\ ScopeInit

\* The script raises e at the given step; the run is over.
Raise(kind, step) ==
    /\ raised' = [kind |-> kind, step |-> step]
    /\ result' = Propagate(raised')
    /\ pc' = "done"

\* swap_node_data() is called.
StartRun ==
    /\ pc \in {"idle", "done"}
    /\ run < MaxRuns
    /\ pc' = "create_db"
    /\ run' = run + 1
    /\ qs' = <<>>
    /\ i' = 1
    /\ kwargs' = None
    /\ c' = <<>>
    /\ session' = FreshSession
    /\ raised' = None
    /\ result' = None
    /\ dest0' = dest
    /\ calls' = NoCalls
    /\ UNCHANGED <<schema_vars, scope_vars>>
    /\ UNCHANGED <<legacy, dest>>

\* line 9: create_db()
CreateDb ==
    /\ pc = "create_db"
    /\ dest' = create_db(dest)
    /\ pc' = "query"
    /\ UNCHANGED <<schema_vars, scope_vars>>
    /\ UNCHANGED <<legacy, run, qs, i, kwargs, c, session, raised, result,
                   dest0, calls>>

\* lines 10-13: c = [], the projection, and the evaluation of the queryset
\* by the for statement.
Query ==
    /\ pc = "query"
    /\ c' = <<>>
    /\ qs' = only(legacy, future_fields)
    /\ i' = 1
    /\ pc' = "loop"
    /\ UNCHANGED <<schema_vars, scope_vars>>
    /\ UNCHANGED <<legacy, dest, run, kwargs, session, raised, result, dest0,
                   calls>>

\* (variant: every converted row is added and committed inside the loop)
ConvertRow_commit_each ==
    /\ pc = "loop"
    /\ i <= Len(qs)
    /\ LET d == qs[i] IN
         IF ConversionFails(d)
         THEN /\ Raise("AttributeError", "convert")
              /\ UNCHANGED <<kwargs, c, i, dest>>
         ELSE /\ kwargs' = BuildKwargs(d)
              /\ c' = Append(c, ConnectionNode(kwargs'))
              /\ dest' = [dest EXCEPT !.rows = @ \cup {ConnectionNode(kwargs')}]
              /\ i' = i + 1
              /\ UNCHANGED <<pc, raised, result>>
    /\ UNCHANGED <<schema_vars, scope_vars>>
    /\ UNCHANGED <<legacy, run, qs, session, dest0, calls>>

\* (variant: a row whose geometry cannot be converted is skipped)
ConvertRow_skip_null ==
    /\ pc = "loop"
    /\ i <= Len(qs)
    /\ LET d == qs[i] IN
         IF ConversionFails(d)
         THEN /\ i' = i + 1
              /\ UNCHANGED <<kwargs, c, pc, raised, result>>
         ELSE /\ kwargs' = BuildKwargs(d)
              /\ c' = Append(c, ConnectionNode(kwargs'))
              /\ i' = i + 1
              /\ UNCHANGED <<pc, raised, result>>
    /\ UNCHANGED <<schema_vars, scope_vars>>
    /\ UNCHANGED <<legacy, dest, run, qs, session, dest0, calls>>

\* (variant: the error of a row is noted and the loop goes on)
ConvertRow_continue ==
    /\ pc = "loop"
    /\ i <= Len(qs)
    /\ LET d == qs[i] IN
         IF ConversionFails(d)
         THEN /\ raised' = [kind |-> "AttributeError", step |-> "convert"]
              /\ i' = i + 1
              /\ UNCHANGED <<kwargs, c, pc, result>>
         ELSE /\ kwargs' = BuildKwargs(d)
              /\ c' = Append(c, ConnectionNode(kwargs'))
              /\ i' = i + 1
              /\ UNCHANGED <<pc, raised, result>>
    /\ UNCHANGED <<schema_vars, scope_vars>>
    /\ UNCHANGED <<legacy, dest, run, qs, session, dest0, calls>>

\* (variant: the legacy row is deleted once it has been converted)
ConvertRow_delete_source ==
    /\ pc = "loop"
    /\ i <= Len(qs)
    /\ LET d == qs[i] IN
         IF ConversionFails(d)
         THEN /\ Raise("AttributeError", "convert")
              /\ UNCHANGED <<kwargs, c, i, legacy>>
         ELSE /\ kwargs' = BuildKwargs(d)
              /\ c' = Append(c, ConnectionNode(kwargs'))
              /\ legacy' = [n \in DOMAIN legacy \ {d.id.v} |-> legacy[n]]
              /\ i' = i + 1
              /\ UNCHANGED <<pc, raised, result>>
    /\ UNCHANGED <<schema_vars, scope_vars>>
    /\ UNCHANGED <<dest, run, qs, session, dest0, calls>>

\* (variant: when a row cannot be converted the loop starts over)
ConvertRow_retry ==
    /\ pc = "loop"
    /\ i <= Len(qs)
    /\ LET d == qs[i] IN
         IF ConversionFails(d)
         THEN /\ i' = 1
              /\ c' = <<>>
              /\ UNCHANGED <<kwargs, pc, raised, result>>
         ELSE /\ kwargs' = BuildKwargs(d)
              /\ c' = Append(c, ConnectionNode(kwargs'))
              /\ i' = i + 1
              /\ UNCHANGED <<pc, raised, result>>
    /\ UNCHANGED <<schema_vars, scope_vars>>
    /\ UNCHANGED <<legacy, dest, run, qs, session, dest0, calls>>

\* lines 13-25: one pass of the for loop.
ConvertRow ==
    /\ pc = "loop"
    /\ i <= Len(qs)
    /\ LET d == qs[i] IN
         IF ConversionFails(d)
         THEN /\ Raise("AttributeError", "convert")
              /\ UNCHANGED <<kwargs, c, i>>
         ELSE /\ kwargs' = BuildKwargs(d)
              /\ IF ConstructorAccepts(kwargs')
                 THEN /\ c' = Append(c, ConnectionNode(kwargs'))
                      /\ i' = i + 1
                      /\ UNCHANGED <<pc, raised, result>>
                 ELSE /\ Raise("TypeError", "construct")
                      /\ UNCHANGED <<c, i>>
    /\ UNCHANGED <<schema_vars, scope_vars>>
    /\ UNCHANGED <<legacy, dest, run, qs, session, dest0, calls>>

\* (variant: add_nodes(c) is indented into the body of the for loop)
GetDb_in_loop ==
    /\ pc = "loop"
    /\ i > 1
    /\ \E finalised \in BOOLEAN :
           session' = [acquired |-> TRUE, closed |-> finalised, pending |-> <<>>]
    /\ pc' = "add_all"
    /\ UNCHANGED <<schema_vars, scope_vars>>
    /\ UNCHANGED <<legacy, dest, run, qs, i, kwargs, c, raised, result, dest0,
                   calls>>

\* lines 26, 30: add_nodes(c) is called and takes session = next(get_db()).
\* The generator object of get_db() is unreferenced as soon as next()
\* returns; its finally block (db.close()) runs when the object is
\* finalised: at once under reference counting, later under a tracing
\* collector.  A closed session accepts further work.
GetDb ==
    /\ pc = "loop"
    /\ i > Len(qs)
    /\ \E finalised \in BOOLEAN :
           session' = [acquired |-> TRUE, closed |-> finalised, pending |-> <<>>]
    /\ pc' = "add_all"
    /\ UNCHANGED <<schema_vars, scope_vars>>
    /\ UNCHANGED <<legacy, dest, run, qs, i, kwargs, c, raised, result, dest0,
                   calls>>

\* (variant: a session with autocommit=True, which writes the objects as
\* they are added)
AddAll_autocommit ==
    /\ pc = "add_all"
    /\ session' = [session EXCEPT !.pending = c, !.closed = FALSE]
    /\ dest' = [dest EXCEPT !.rows = @ \cup SeqRange(c)]
    /\ calls' = [calls EXCEPT !.add_all = @ + 1]
    /\ pc' = "commit"
    /\ UNCHANGED <<schema_vars, scope_vars>>
    /\ UNCHANGED <<legacy, run, qs, i, kwargs, c, raised, result, dest0>>

\* line 31: session.add_all(nodes); nothing is flushed (autoflush=False).
\* A session that close() has been called on is put to use again by this
\* call and by the commit after it; add_nodes itself never calls close().
AddAll ==
    /\ pc = "add_all"
    /\ session' = [session EXCEPT !.pending = c, !.closed = FALSE]
    /\ calls' = [calls EXCEPT !.add_all = @ + 1]
    /\ pc' = "commit"
    /\ UNCHANGED <<schema_vars, scope_vars>>
    /\ UNCHANGED <<legacy, dest, run, qs, i, kwargs, c, raised, result, dest0>>

\* line 32: session.commit()
Commit ==
    /\ pc = "commit"
    /\ calls' = [calls EXCEPT !.commit = @ + 1]
    /\ session' = [session EXCEPT !.pending = <<>>]
    /\ \E fault \in BOOLEAN :
         LET out == session_commit(dest, session.pending, fault) IN
           /\ dest' = out.db
           /\ IF out.error # None
              THEN Raise(out.error.v, "commit")
              ELSE /\ result' = [status |-> "ok"]
                   /\ pc' = "done"
                   /\ UNCHANGED raised
    /\ UNCHANGED <<schema_vars, scope_vars>>
    /\ UNCHANGED <<legacy, run, qs, i, kwargs, c, dest0>>

Next ==
    \/ StartRun
    \/ CreateDb
    \/ Query
    \/ ConvertRow
    \/ GetDb
    \/ AddAll
    \/ Commit

Spec == Init /\ [][Next]_vars

\* The script is one thread of sequential code with no wait in it: once
\* swap_node_data has been called, the step it is at is taken.  Whether it
\* is called (again) is up to the operator.
FairSpec ==
    Spec /\ WF_vars(CreateDb \/ Query \/ ConvertRow \/ GetDb \/ AddAll \/ Commit)

\* ------------------------------------------- runs over any legacy-only values
\* The script over legacy tables whose rows take every value of code and of
\* the_geom_linestring, null included.
ProjectionBody ==
    [storage_area : {None}, initial_waterlevel : Levels, code : OtherCodes,
     the_geom : {CHOOSE p \in Points : TRUE, None},
     the_geom_linestring : LineStrings \cup {None}]

ProjectionInit ==
    /\ \E S \in SUBSET Ids : \E f \in [S -> ProjectionBody] :
           legacy = [n \in S |-> LegacyRow(n, f[n])]
    /\ dest \in {FreshDb} \cup
                {Populated(legacy, P) : P \in SUBSET Migratable(legacy)}
    /\ pc = "idle"
    /\ run = 0
    /\ qs = <<>>
    /\ i = 1
    /\ kwargs = None
    /\ c = <<>>
    /\ session = FreshSession
    /\ raised = None
    /\ result = None
    /\ dest0 = dest
    /\ calls = NoCalls
    /\ SchemaInit
    /\ ScopeInit

ProjectionSpec == ProjectionInit /\ [][Next]_vars


\* ------------------------------------------------- the schema constants
\* The copy script at rest: an empty legacy table, a fresh store, no run.
MigrationIdle ==
    /\ legacy = <<>>
    /\ dest = FreshDb
    /\ pc = "idle"
    /\ run = 0
    /\ qs = <<>>
    /\ i = 1
    /\ kwargs = None
    /\ c = <<>>
    /\ session = FreshSession
    /\ raised = None
    /\ result = None
    /\ dest0 = dest
    /\ calls = NoCalls

ChoiceInit == MigrationIdle /\ SchemaInit /\ ScopeInit

\* A label is looked up in one of the three lookup tables.
Lookup ==
    \E name \in LookupNames :
      \E label \in AllLabels \cup {UnknownLabel} :
        /\ found' = [op |-> "lookup", table |-> name, key |-> label,
                     value |-> getitem(lookup_table(name), label)]
        /\ UNCHANGED <<scope_vars, migration_vars, store, made, deleted>>

\* The n-th code of a choice set is taken to its label (dict(choices)[code])
\* and the label back to a code (reversed_dict(choices)[label]); the n-th
\* label is taken to its code and the code back to a label.
RoundTrip ==
    \E name \in ChoiceSetNames :
      LET d == choice_set(name) IN
      \E n \in DOMAIN d :
        LET label == getitem(dict(d), d[n][1])
            code == getitem(reversed_dict(d), d[n][2])
        IN  /\ found' = [op |-> "round_trip", set |-> name, n |-> n,
                         label |-> label,
                         code_back |-> getitem(reversed_dict(d), label),
                         code |-> code,
                         label_back |-> getitem(dict(d), code)]
            /\ UNCHANGED <<scope_vars, migration_vars, store, made, deleted>>

\* CULVERT_MAPPING[code] for an import code
MapCulvert ==
    \E code \in ImportCodes :
      /\ found' = [op |-> "culvert", key |-> code,
                   value |-> getitem(CULVERT_MAPPING, code)]
      /\ UNCHANGED <<scope_vars, migration_vars, store, made, deleted>>

\* MATERIAL_ROUGHNESS[friction_type][material] for a declared code or
\* another one
Roughness ==
    \E f \in codes(FRICTION_TYPE_CHOICES) \cup {PyInt(0), PyInt(2)} :
      \E m \in codes(MATERIAL_TYPE_CHOICES) \cup {PyInt(-1), PyInt(9)} :
        LET row == getitem(MATERIAL_ROUGHNESS, f) IN
          /\ found' = [op |-> "roughness", friction |-> f, material |-> m,
                       value |-> IF row = KeyError THEN KeyError
                                 ELSE getitem(row, m)]
          /\ UNCHANGED <<scope_vars, migration_vars, store, made, deleted>>

ChoiceNext ==
    \/ Lookup
    \/ RoundTrip
    \/ MapCulvert
    \/ Roughness

ChoiceSpec == ChoiceInit /\ [][ChoiceNext]_vars

\* ------------------------------------------------------ model instances
\* Model(field=value): the constructor sets the attribute and checks nothing.
Construct ==
    \E mf \in EnumeratedFields :
      \E value \in FieldValues(mf) :
        /\ made' = [model |-> mf[1], field |-> mf[2], value |-> value,
                    cleaned |-> FALSE, error |-> None,
                    saved |-> FALSE, db_error |-> None]
        /\ UNCHANGED <<scope_vars, migration_vars, store, found, deleted>>

\* instance.full_clean()
FullClean ==
    /\ made # None
    /\ ~made.cleaned
    /\ made' = [made EXCEPT
                  !.cleaned = TRUE,
                  !.error = full_clean(<<made.model, made.field>>, made.value)]
    /\ UNCHANGED <<scope_vars, migration_vars, store, found, deleted>>

\* instance.save()
Save ==
    /\ made # None
    /\ ~made.saved
    /\ made.db_error = None
    /\ LET e == save(<<made.model, made.field>>, made.value) IN
         made' = [made EXCEPT !.saved = (e = None), !.db_error = e]
    /\ UNCHANGED <<scope_vars, migration_vars, store, found, deleted>>

ValidationNext ==
    \/ Construct
    \/ FullClean
    \/ Save

ValidationSpec == ChoiceInit /\ [][ValidationNext]_vars

\* ------------------------------------------------------- the legacy rows
\* Model.objects.create(...): a row of one model is inserted with the next
\* primary key of its table, or the INSERT fails and the store stays as it
\* is.
CreateRow(m, refs, attrs) ==
    LET row == [model |-> m, id |-> NextId(store, m), refs |-> refs,
                attrs |-> attrs]
    IN  /\ Cardinality(store) < MaxStore
        /\ IF insert_error(store, row) = None
           THEN store' = store \cup {row}
           ELSE UNCHANGED store
        /\ deleted' = {}
        /\ UNCHANGED <<scope_vars, migration_vars, made, found>>

\* A row of any model is created, each key NULL, the key of a row of the
\* target, or a key that no row of the target has; a V2Control is created
\* without control_type and control_id.  The rows of one store are of
\* models that foreign keys bring together (ModelGroups): rows of other
\* models have no key in common and do nothing to each other.
Create ==
    \E m \in Models :
      /\ ({r.model : r \in store} \cup {m}) \in ModelGroups
      /\ \E refs \in RefChoices(store, m) :
            CreateRow(m, refs, NoAttrs(m))

\* A V2Control or a row of a control variant is created, the V2Control with
\* any control_type and control_id and without a control group or a
\* measure group.
CreateControl ==
    \E m \in {"V2Control"} \cup ControlVariants :
      /\ {r.model : r \in store} \subseteq {"V2Control"} \cup ControlVariants
      /\ \E attrs \in Attrs(m) :
            CreateRow(m, [f \in fk_fields(m) |-> None], attrs)

\* instance.delete(): the row and the rows the cascade collects are removed.
Delete ==
    \E r \in store :
      LET D == Collect(store, {r}) IN
        /\ store' = store \ D
        /\ deleted' = {d.model : d \in D}
        /\ UNCHANGED <<scope_vars, migration_vars, made, found>>

StoreNext ==
    \/ Create
    \/ Delete

StoreSpec == ChoiceInit /\ [][StoreNext]_vars

ControlNext ==
    \/ CreateControl
    \/ Delete

ControlSpec == ChoiceInit /\ [][ControlNext]_vars

\* ------------------------------------------- rows of a connection node
\* V2ConnectionNode and the two models whose key to it is declared
\* unique=True.
NodeModels == {"V2ConnectionNode", "V2Manhole", "V2OneDeeBoundaryCondition"}

\* Model.objects.create(...) for one of these models, with what became of
\* the INSERT kept in made.
CreateNodeRow ==
    \E m \in NodeModels :
      \E refs \in RefChoices(store, m) :
        LET row == [model |-> m, id |-> NextId(store, m), refs |-> refs,
                    attrs |-> NoAttrs(m)]
            e == insert_error(store, row)
        IN  /\ Cardinality(store) < MaxStore
            /\ {r.model : r \in store} \subseteq NodeModels
            /\ made' = [op |-> "create", row |-> row, error |-> e]
            /\ store' = IF e = None THEN store \cup {row} ELSE store
            /\ deleted' = {}
            /\ UNCHANGED <<scope_vars, migration_vars, found>>

NodeNext ==
    \/ CreateNodeRow
    \/ Delete

NodeSpec == ChoiceInit /\ [][NodeNext]_vars


\* ---------------------------------------------------- measure groups
MeasureModels == {"V2ControlMeasureGroup", "V2ControlMeasureMap"}

\* A V2ControlMeasureGroup is created, or a V2ControlMeasureMap with any
\* weight and with no group, a group that exists or one that does not.
CreateMeasure ==
    \E m \in MeasureModels :
      /\ {r.model : r \in store} \subseteq MeasureModels
      /\ \E refs \in RefChoices(store, m) :
           \E attrs \in Attrs(m) :
              CreateRow(m, refs, attrs)

\* instance.weight = w; instance.save() on a V2ControlMeasureMap
ChangeWeight ==
    \E r \in store :
      /\ r.model = "V2ControlMeasureMap"
      /\ \E w \in Weights \ {r.attrs.weight} :
            store' = (store \ {r}) \cup {[r EXCEPT !.attrs.weight = w]}
      /\ deleted' = {}
      /\ UNCHANGED <<scope_vars, migration_vars, made, found>>

MeasureNext ==
    \/ CreateMeasure
    \/ ChangeWeight
    \/ Delete

MeasureSpec == ChoiceInit /\ [][MeasureNext]_vars


\* ------------------------------------------------ deletes around groups
\* The tables hold rows around control groups.
CascadeInit ==
    /\ MigrationIdle
    /\ ScopeInit
    /\ store \in ControlGroupStores
    /\ made = None
    /\ found = None
    /\ deleted = {}

\* instance.delete(), with the row deleted and the rows removed kept in made
DeleteLogged ==
    \E r \in store :
      LET D == Collect(store, {r}) IN
        /\ store' = store \ D
        /\ deleted' = {d.model : d \in D}
        /\ made' = [op |-> "delete", root |-> r, rows |-> D]
        /\ UNCHANGED <<scope_vars, migration_vars, found>>

CascadeSpec == CascadeInit /\ [][DeleteLogged]_vars


\* ------------------------------------------ SqliteDatabase.session()
\* future/database.py, lines 42-48: a generator under @contextmanager.
\*     s = self._session()
\*     try:
\*         yield s
\*     finally:
\*         s.close()
\* A with-block is at "body" while the code inside it runs, at "finally"
\* once the body has ended or raised, and at "closed" when s.close() has
\* returned and the with-statement is about to hand over to the code
\* around it.

\* self._session(): the sessionmaker makes a new session at every call.
NewSession == [closes |-> 0, used |-> 0]

\* what the body of a with-block may raise
BlockErrors == {IntegrityError, PyStr("KeyboardInterrupt")}

Top == blocks[Len(blocks)]

Pop(q) == SubSeq(q, 1, Len(q) - 1)

\* with db.session() as s: __enter__ runs the generator up to the yield.
Enter ==
    /\ Len(sessions) < MaxSessions
    /\ blocks # <<>> => Top.at = "body"
    /\ sessions' = Append(sessions, NewSession)
    /\ blocks' = Append(blocks, [s |-> Len(sessions) + 1, at |-> "body",
                                exc |-> None])
    /\ UNCHANGED <<caller, migration_vars, schema_vars>>

\* the body works with s
Use ==
    /\ blocks # <<>>
    /\ Top.at = "body"
    /\ sessions[Top.s].used = 0
    /\ sessions' = [sessions EXCEPT ![Top.s].used = 1]
    /\ UNCHANGED <<blocks, caller, migration_vars, schema_vars>>

\* the body comes to its end: __exit__ resumes the generator after the yield
Leave ==
    /\ blocks # <<>>
    /\ Top.at = "body"
    /\ blocks' = [blocks EXCEPT ![Len(blocks)].at = "finally"]
    /\ UNCHANGED <<sessions, caller, migration_vars, schema_vars>>

\* the body raises: __exit__ throws the exception into the generator at the
\* yield, inside the try statement
RaiseInBlock ==
    /\ blocks # <<>>
    /\ Top.at = "body"
    /\ \E e \in BlockErrors :
         blocks' = [blocks EXCEPT ![Len(blocks)].at = "finally",
                                  ![Len(blocks)].exc = e]
    /\ UNCHANGED <<sessions, caller, migration_vars, schema_vars>>

\* (variant: yield s followed by s.close() with no try/finally, so an
\* exception thrown in at the yield leaves the generator at once)
Close_without_finally ==
    /\ blocks # <<>>
    /\ Top.at = "finally"
    /\ sessions' = [sessions EXCEPT ![Top.s].closes =
                        IF Top.exc = None THEN @ + 1 ELSE @]
    /\ blocks' = [blocks EXCEPT ![Len(blocks)].at = "closed"]
    /\ UNCHANGED <<caller, migration_vars, schema_vars>>

\* finally: s.close()
Close ==
    /\ blocks # <<>>
    /\ Top.at = "finally"
    /\ sessions' = [sessions EXCEPT ![Top.s].closes = @ + 1]
    /\ blocks' = [blocks EXCEPT ![Len(blocks)].at = "closed"]
    /\ UNCHANGED <<caller, migration_vars, schema_vars>>

\* The generator ends (StopIteration) or lets the exception out; __exit__
\* returns a false value, so the with-statement is left normally or the
\* exception is raised, unchanged, in the code around it: in the body of
\* the enclosing with-block when there is one.
Return ==
    /\ blocks # <<>>
    /\ Top.at = "closed"
    /\ caller' = [s |-> Top.s, exc |-> Propagate(Top.exc),
                  closes |-> sessions[Top.s].closes]
    /\ blocks' =
         IF Len(blocks) > 1 /\ Top.exc # None
         THEN [Pop(blocks) EXCEPT ![Len(blocks) - 1].at = "finally",
                                  ![Len(blocks) - 1].exc = Top.exc]
         ELSE Pop(blocks)
    /\ UNCHANGED <<sessions, migration_vars, schema_vars>>

ScopeNext ==
    \/ Enter
    \/ Use
    \/ Leave
    \/ RaiseInBlock
    \/ Close
    \/ Return

ScopeSpec == ChoiceInit /\ [][ScopeNext]_vars


\* ================================================================ claims
Ok == [status |-> "ok"]

Done == pc = "done"
Succeeded == pc = "done" /\ result = Ok
FailedAt(step) == pc = "done" /\ raised # None /\ raised.step = step

\* the rows the current run has committed
NewRows == dest.rows \ dest0.rows

\* the legacy rows that have no value for a column the new schema requires
LacksRequired(row) == \E k \in RequiredColumns : row[k] = None

C2_NoRowOnConversionFailure ==
    FailedAt("convert") => dest.rows = dest0.rows

C2_Witness ==
    /\ FailedAt("convert")
    /\ i = 2
    /\ Len(c) = 1
    /\ c[1] \notin dest.rows

\* C3: when a run has ended, the rows it committed are all of its rows or
\* none of them, also when commit failed.
C3_AllOrNone ==
    Done => \/ NewRows = {}
            \/ /\ Len(c) = Len(qs)
               /\ NewRows = SeqRange(c)
               /\ Cardinality(NewRows) = Cardinality(DOMAIN legacy)

C3_Witness ==
    /\ FailedAt("commit")
    /\ raised.kind = "OperationalError"
    /\ Len(c) = 2
    /\ NewRows = {}

\* C4: migrating an empty legacy table ends without error, commits no row
\* and leaves the destination initialised and empty.
C4_EmptyLegacy ==
    (Done /\ DOMAIN legacy = {}) =>
        /\ result = Ok
        /\ raised = None
        /\ NewRows = {}
        /\ dest.rows = {}
        /\ "connection_nodes" \in dest.tables

C4_Witness ==
    /\ Done
    /\ DOMAIN legacy = {}
    /\ dest0 = FreshDb
    /\ calls.commit = 1

\* C5: the keys of kwargs are names that are both a loaded legacy field and
\* a column of the new table; code, the_geom_linestring and the names that
\* start with an underscore are dropped, and dropping them raises nothing.
C5_KwargsKeys ==
    /\ kwargs # None =>
           /\ DOMAIN kwargs \subseteq future_fields \cap LegacyFields
           /\ DOMAIN kwargs \subseteq DOMAIN qs[i - 1]
           /\ \A k \in DOMAIN kwargs : ~startswith(k, Underscore)
           /\ "code" \notin DOMAIN kwargs
           /\ "the_geom_linestring" \notin DOMAIN kwargs
    /\ \A n \in 1..Len(qs) : DOMAIN qs[n] = future_fields \cup {"_state"}
    /\ raised # None => raised.kind # "TypeError"
    /\ FailedAt("convert") => qs[i]["the_geom"] = None

C5_Witness ==
    /\ kwargs # None
    /\ pc = "loop"
    /\ legacy[kwargs.id.v].the_geom_linestring # None
    /\ legacy[kwargs.id.v].code = PyStr("c1")

\* C6: a carried-over field is converted to its ewkt text exactly when its
\* name contains "geom"; every other carried-over field reaches the
\* ConnectionNode constructor under the same name with the same value.
C6_GeomIffConverted ==
    /\ kwargs # None =>
           LET d == qs[i - 1] IN
             /\ \A k \in DOMAIN kwargs :
                    IF contains(k, Geom)
                    THEN /\ IsEwkt(kwargs[k])
                         /\ from_ewkt(kwargs[k]) = d[k]
                    ELSE kwargs[k] = d[k]
             /\ {k \in DOMAIN kwargs : kwargs[k] # d[k]} = {"the_geom"}
    /\ \A n \in 1..Len(c) : \A k \in future_fields :
           IF contains(k, Geom)
           THEN IsEwkt(c[n][k]) /\ from_ewkt(c[n][k]) = qs[n][k]
           ELSE c[n][k] = qs[n][k]

C6_Witness ==
    /\ kwargs # None
    /\ kwargs["storage_area"] = None
    /\ kwargs["initial_waterlevel"] = PyFloat(8)
    /\ Len(c) = 2
    /\ c[1]["the_geom"] # c[2]["the_geom"]

C10_InitIdempotent ==
    /\ "connection_nodes" \in dest.tables => create_db(dest) = dest
    /\ create_db(create_db(dest)) = create_db(dest)
    /\ pc = "query" => /\ dest.rows = dest0.rows
                       /\ "connection_nodes" \in dest0.tables => dest = dest0

C10_Witness ==
    /\ pc = "query"
    /\ run = 2
    /\ Cardinality(dest.rows) = 2
    /\ dest = dest0

\* C11: a run only reads the legacy store: no step of a run, in a run that
\* succeeds or in one that fails, changes the set of legacy rows or any of
\* their field values.
C11_LegacyReadOnly == [][legacy' = legacy]_vars

\* a run over a non-empty legacy table has ended, with rows committed or
\* with an error
C11_Witness ==
    /\ Done
    /\ DOMAIN legacy # {}
    /\ \/ NewRows # {}
       \/ raised # None

C17_GeomNeverNull ==
    /\ \A r \in dest.rows : r.the_geom # None /\ IsEwkt(r.the_geom)
    /\ \A n \in 1..Len(c) : c[n].the_geom # None
    /\ \A n \in 1..Len(session.pending) : session.pending[n].the_geom # None

\* a second run has ended on a destination that holds committed rows
C17_Witness ==
    /\ Done
    /\ run > 1
    /\ \E r \in dest.rows : IsEwkt(r.the_geom)

\* C19: the steps of a run happen in order.  The schema initialisation is
\* complete before the legacy rows are read; every legacy row is converted
\* and its ConnectionNode constructed before the first is added to the
\* session; add_all and commit are each executed at most once in a run,
\* commit only after add_all, and rows reach the store only by that commit.
C19_StepOrder ==
    /\ (pc \in {"loop", "add_all", "commit"} \/ qs # <<>>)
           => /\ pc \notin {"idle", "create_db", "query"}
              /\ {"spatial_ref_sys", "geometry_columns", "connection_nodes"}
                     \subseteq dest.tables
    /\ (calls.add_all > 0 \/ session.pending # <<>>)
           => /\ i = Len(qs) + 1
              /\ Len(c) = Len(qs)
              /\ Len(qs) = Cardinality(DOMAIN legacy)
    /\ calls.add_all <= 1
    /\ calls.commit <= calls.add_all
    /\ (pc = "commit") => calls.add_all = 1 /\ calls.commit = 0
    /\ (NewRows # {}) => calls.commit = 1

\* a run over several legacy rows has gone through add_all and commit
C19_Witness ==
    /\ Done
    /\ Len(c) > 1
    /\ calls = [add_all |-> 1, commit |-> 1]

\* C20: a run over a finite legacy table ends, and ends in exactly one of
\* two outcomes: every legacy row committed and no error, or an error with
\* nothing committed by the run.  The loop visits each row at most once:
\* while the run stays in the loop every step moves on to the next row, and
\* within a run the position in the row set never goes back.
C20_RunEnds ==
    /\ (pc = "create_db") ~> Done
    /\ [](Done =>
            \/ /\ raised = None
               /\ result = Ok
               /\ Len(c) = Cardinality(DOMAIN legacy)
               /\ SeqRange(c) \subseteq dest.rows
            \/ /\ raised # None
               /\ result = raised
               /\ NewRows = {})
    /\ [][(pc = "loop" /\ pc' = "loop") => i' = i + 1]_vars
    /\ [][pc' \in {"idle", "create_db"} \/ i' >= i]_vars

\* a run that visited several rows has ended without an error
C20_Witness ==
    /\ Succeeded
    /\ i > 2
    /\ Cardinality(NewRows) = Len(qs)

\* C13: the session add_nodes has acquired is closed on every exit path of
\* add_nodes: when a run that acquired a session has ended, after a commit
\* that succeeded or one that raised, the session is closed.
C13_SessionReleased == (Done /\ session.acquired) => session.closed

\* C16: in every choice set the codes are pairwise distinct and the labels
\* are pairwise distinct, so code -> label -> code and label -> code ->
\* label give back what they started from; MANHOLE_INDICATOR_LOOKUP,
\* MANHOLE_CALCULATION_TYPE_LOOKUP and SHAPE_MAP_LOOKUP hold one entry per
\* label of their choice set and take each label to the code it is declared
\* with (and no other label to anything).
C16_CodesAndLabelsRoundTrip ==
    /\ \A name \in ChoiceSetNames :
         LET d == choice_set(name) IN
           \A m, n \in DOMAIN d :
               m # n => d[m][1] # d[n][1] /\ d[m][2] # d[n][2]
    /\ \A name \in LookupNames :
         LET d == choice_set(lookup_source(name)) IN
           /\ Len(lookup_table(name)) = Len(d)
           /\ \A n \in DOMAIN d : getitem(lookup_table(name), d[n][2]) = d[n][1]
    /\ (found # None /\ found.op = "round_trip") =>
         LET d == choice_set(found.set) IN
           /\ found.label = d[found.n][2]
           /\ found.code_back = d[found.n][1]
           /\ found.code = d[found.n][1]
           /\ found.label_back = d[found.n][2]
    /\ (found # None /\ found.op = "lookup") =>
         LET d == choice_set(lookup_source(found.table)) IN
           IF found.key \in choices_as_set(d)
           THEN \E n \in DOMAIN d :
                    found.key = d[n][2] /\ found.value = d[n][1]
           ELSE found.value = KeyError

\* the label of the last shape type has been looked up in SHAPE_MAP_LOOKUP
C16_Witness ==
    /\ found # None
    /\ found.op = "lookup"
    /\ found.table = "SHAPE_MAP_LOOKUP"
    /\ found.key = PyStr("tabulated_trapezium")
    /\ found.value = PyInt(6)

\* the instance made last holds, in its enumerated field, a value that is
\* not empty and is none of the codes of the field's choice set
OutsideChoices ==
    /\ made # None
    /\ made.value \notin EMPTY_VALUES
    /\ made.value \notin field_codes(<<made.model, made.field>>)

Dangling(r) ==
    {k \in fk(r.model) :
        /\ r.refs[k.field] # None
        /\ ~Exists(store, k.target, r.refs[k.field].v)}

\* C15: after any sequence of creates and deletes no foreign key of any row
\* refers to a row that does not exist: every delete, of a V2ConnectionNode
\* as of any other row, has removed the rows that referred to it and the
\* rows that referred to those.
C15_NoDanglingForeignKey == \A r \in store : Dangling(r) = {}

\* the delete of a V2ConnectionNode has removed a V2Channel that referred
\* to it and a V2CrossSectionLocation that referred to the channel
C15_Witness ==
    {"V2ConnectionNode", "V2Channel", "V2CrossSectionLocation"}
        \subseteq deleted

\* the pair (control_type, control_id) of a V2Control row names one of the
\* five variants and the id of a row of that variant's table
Resolves(r) ==
    /\ r.attrs.control_type \in {PyStr(t) : t \in ControlTypes}
    /\ r.attrs.control_id # None
    /\ Exists(store, control_table(r.attrs.control_type.v),
              r.attrs.control_id.v)

\* C18: every stored V2Control has a control_type that is one of the five
\* variants and a control_id that is the id of an existing row of that
\* variant's table, after any sequence of creates and deletes of V2Control
\* rows and variant rows.
C18_ControlResolves ==
    \A r \in store : r.model = "V2Control" => Resolves(r)


\* C21: the session add_nodes takes with next(get_db()) stays open from its
\* acquisition until commit() has returned: between the acquisition and
\* add_all, and between add_all and commit, close() has not been called on
\* it.
C21_SessionHeldOpen ==
    (session.acquired /\ pc \in {"add_all", "commit"}) => ~session.closed

\* C22: nothing a run writes is in the committed contents of the new store
\* before commit(): from the start of the run up to the call of commit,
\* add_all included, the committed rows are the rows the run found, also
\* while the session holds pending objects.
C22_NothingVisibleBeforeCommit ==
    /\ pc \in {"create_db", "query", "loop", "add_all", "commit"} =>
           dest.rows = dest0.rows
    /\ pc = "commit" => session.pending = c

\* a run has added its objects to the session, commit is still to be called
C22_Witness ==
    /\ pc = "commit"
    /\ Len(session.pending) = MaxId
    /\ calls.add_all = 1
    /\ dest.rows = {}

\* C23: no two rows of connection_nodes have the same id; a run whose
\* objects include an id that is already committed fails at commit with
\* IntegrityError and commits nothing, so the store holds the rows it held
\* before the run.
C23_PrimaryKeyUnique ==
    /\ \A r1, r2 \in dest.rows : r1.id = r2.id => r1 = r2
    /\ (/\ Done
        /\ calls.commit = 1
        /\ \E n \in 1..Len(c) : c[n].id \in DestIds(dest0)) =>
           /\ FailedAt("commit")
           /\ raised.kind = "IntegrityError"
           /\ dest.rows = dest0.rows

\* the second run over a legacy table of MaxId rows, all of them in the
\* store already, has failed at commit
C23_Witness ==
    /\ run = 2
    /\ FailedAt("commit")
    /\ Len(c) = MaxId
    /\ dest0.rows = SeqRange(c)
    /\ dest.rows = dest0.rows

\* what the run that has ended left in the store and raised
Outcome == [db |-> dest, error |-> IF raised = None THEN None
                                   ELSE PyStr(raised.kind)]

\* C25: the outcome of swap_node_data does not depend on the legacy-only
\* fields: what a run over the legacy table left in the store and raised is
\* what swap_node_data leaves and raises over every table that differs from
\* it only in the values of code and the_geom_linestring, null included;
\* and no value of those fields is in the queryset or the constructed
\* objects.
C25_LegacyOnlyFieldsIgnored ==
    /\ Done =>
         \A t2 \in Variants(legacy) :
            \E fault \in BOOLEAN : Outcome = swap_node_data(t2, dest0, fault)
    /\ \A n \in 1..Len(qs) : DOMAIN qs[n] \cap LegacyOnlyFields = {}

\* a run has succeeded over a table of MaxId rows of which one has a null
\* the_geom_linestring and two have different codes
C25_Witness ==
    /\ Succeeded
    /\ NewRows # {}
    /\ DOMAIN legacy = Ids
    /\ \E n \in Ids : legacy[n].the_geom_linestring = None
    /\ \E m, n \in Ids : legacy[m].code # legacy[n].code

\* the with-blocks that hold session n
BlocksOf(n) == {k \in 1..Len(blocks) : blocks[k].s = n}

\* Every session is held by one with-block at most; close() has not been
\* called on it while that block is in its body or on its way to the
\* finally clause, and has been called once when the block is left.
ScopedAcquisition ==
    /\ \A n \in 1..Len(sessions) :
         /\ Cardinality(BlocksOf(n)) <= 1
         /\ \A k \in BlocksOf(n) :
              sessions[n].closes = IF blocks[k].at = "closed" THEN 1 ELSE 0
         /\ BlocksOf(n) = {} => sessions[n].closes = 1
    /\ \A k \in 1..Len(blocks) :
         /\ blocks[k].at = "body" => blocks[k].exc = None
         /\ k < Len(blocks) => blocks[k].at = "body"
    /\ caller # None => caller.closes = 1 /\ BlocksOf(caller.s) = {}

\* C24: SqliteDatabase.session() is a scoped acquisition.  Every with-block
\* has a new session of its own; close() is called on it exactly once, when
\* the block is left and not before, whether the body ended or raised; and
\* the exception a body raised is what the code around the block gets,
\* after the close: it is raised in the body of the enclosing block when
\* there is one.
C24_ScopedSession ==
    /\ []ScopedAcquisition
    /\ [][/\ Len(sessions') > Len(sessions) =>
               /\ Len(blocks') = Len(blocks) + 1
               /\ blocks'[Len(blocks')].s = Len(sessions')
               /\ sessions'[Len(sessions')].closes = 0
          /\ Len(blocks') < Len(blocks) =>
               /\ caller'.s = Top.s
               /\ caller'.exc = Top.exc
               /\ sessions[Top.s].closes = 1
               /\ (Top.exc # None /\ blocks' # <<>>) =>
                      blocks'[Len(blocks')].exc = Top.exc]_vars

\* a block inside another has raised, both sessions have been closed once
\* and the code around the outer block has got the exception
C24_Witness ==
    /\ blocks = <<>>
    /\ Len(sessions) >= 2
    /\ caller # None
    /\ caller.s = 1
    /\ caller.exc = IntegrityError
    /\ sessions[1].used = 1
    /\ \A n \in 1..Len(sessions) : sessions[n].closes = 1

\* the rows of model m that refer to connection node n
OfNode(m, n) ==
    {r \in store : r.model = m /\ r.refs.connection_node = PyInt(n)}

\* C26: a V2ConnectionNode has one V2Manhole at most and one
\* V2OneDeeBoundaryCondition at most; the creation of a second one for a
\* node is rejected with IntegrityError and the row is not stored.
C26_OnePerNode ==
    /\ \A m \in {"V2Manhole", "V2OneDeeBoundaryCondition"} :
         \A n \in 1..(MaxStore + 1) : Cardinality(OfNode(m, n)) <= 1
    /\ (/\ made # None
        /\ made.row.model \in {"V2Manhole", "V2OneDeeBoundaryCondition"}
        /\ \E r \in store :
              /\ r.model = made.row.model
              /\ r.refs = made.row.refs
              /\ r # made.row) =>
           /\ made.error = IntegrityError
           /\ made.row \notin store

\* a second V2Manhole for a node that has one has been rejected
C26_Witness ==
    /\ made # None
    /\ made.row.model = "V2Manhole"
    /\ made.error = IntegrityError
    /\ made.row.refs.connection_node # None
    /\ Exists(store, "V2ConnectionNode", made.row.refs.connection_node.v)
    /\ Cardinality(OfNode("V2Manhole", made.row.refs.connection_node.v)) = 1
    /\ made.row \notin store

\* the V2ControlMeasureMap rows of measure group g
MapsOf(g) ==
    {r \in store : r.model = "V2ControlMeasureMap"
                     /\ r.refs.measure_group = PyInt(g)}

\* the sum of the weights of a set of rows, in hundredths (SUM skips NULL)
RECURSIVE SumOfWeights(_)
SumOfWeights(R) ==
    IF R = {} THEN 0
    ELSE LET r == CHOOSE x \in R : TRUE
         IN  (IF r.attrs.weight = None THEN 0 ELSE r.attrs.weight.v)
                 + SumOfWeights(R \ {r})

\* C27: the weights of the V2ControlMeasureMap rows of every
\* V2ControlMeasureGroup that has such rows sum to exactly 1.00 (100
\* hundredths), after any sequence of creating, changing and deleting rows.
C27_WeightsSumToOne ==
    \A g \in 1..(MaxStore + 1) :
       MapsOf(g) # {} => SumOfWeights(MapsOf(g)) = 100

\* the rows of model m in S whose key f is the primary key of row t
Referring(S, m, f, t) ==
    {r \in S : r.model = m /\ r.refs[f] = PyInt(t.id)}

\* C28: the delete of a V2ControlGroup removes the group, the V2Control and
\* V2GlobalSettings rows that refer to it and the V2AggregationSettings rows
\* of those settings, and nothing else: every row of the five control rule
\* tables stays as it is, the rules the removed V2Control rows name
\* included.  The delete of a control rule removes that row alone, so no
\* V2Control row.
C28_ControlGroupDelete ==
    [][/\ \A g \in store :
            (g.model = "V2ControlGroup" /\ g \notin store') =>
               LET controls == Referring(store, "V2Control", "control_group", g)
                   settings == Referring(store, "V2GlobalSettings",
                                         "control_group", g)
                   aggregations ==
                       UNION {Referring(store, "V2AggregationSettings",
                                        "global_settings", gs) :
                                gs \in settings}
               IN  /\ store \ store' =
                         {g} \cup controls \cup settings \cup aggregations
                   /\ \A v \in store :
                         v.model \in ControlVariants => v \in store'
       /\ \A v \in store :
            (v.model \in ControlVariants /\ v \notin store') =>
               /\ store \ store' = {v}
               /\ \A r \in store : r.model = "V2Control" => r \in store'
       /\ store' \subseteq store]_vars

\* a control group has been deleted, and with it a V2Control that names a
\* rule of v2_control_table, a V2GlobalSettings and its
\* V2AggregationSettings; the rule is still there
C28_Witness ==
    /\ made # None
    /\ made.root.model = "V2ControlGroup"
    /\ {"V2Control", "V2GlobalSettings", "V2AggregationSettings"}
          \subseteq {d.model : d \in made.rows}
    /\ \E r \in made.rows : \E v \in store :
          /\ r.model = "V2Control"
          /\ r.attrs.control_type = PyStr("table")
          /\ v.model = "V2ControlTable"
          /\ r.attrs.control_id = PyInt(v.id)
    /\ \A d \in made.rows : d \notin store

\* the keys of a dict
keys(d) == {d[n][1] : n \in DOMAIN d}

\* C29: CULVERT_MAPPING takes import code 1 to 2, 2 to 1, each of 3, 4, 5
\* and 6 to itself and 99 to 2; it has these seven keys and no other, so
\* any other code is a KeyError; every value is a code from 1 to 6.
C29_CulvertMapping ==
    /\ \A n \in 0..100 :
         getitem(CULVERT_MAPPING, PyInt(n)) =
            CASE n = 1 -> PyInt(2)
              [] n = 2 -> PyInt(1)
              [] n \in 3..6 -> PyInt(n)
              [] n = 99 -> PyInt(2)
              [] OTHER -> KeyError
    /\ Len(CULVERT_MAPPING) = 7
    /\ keys(CULVERT_MAPPING) = {PyInt(n) : n \in (1..6) \cup {99}}
    /\ \A n \in DOMAIN CULVERT_MAPPING :
         CULVERT_MAPPING[n][2] \in {PyInt(v) : v \in 1..6}
    /\ (found # None /\ found.op = "culvert") =>
         IF found.key \in keys(CULVERT_MAPPING)
         THEN found.value \in {PyInt(v) : v \in 1..6}
         ELSE found.value = KeyError

\* the code for an unknown shape, 99, has been mapped to 2
C29_Witness ==
    /\ found # None
    /\ found.op = "culvert"
    /\ found.key = PyInt(99)
    /\ found.value = PyInt(2)

\* C30: MATERIAL_ROUGHNESS has an entry for every pair of a friction type
\* of FRICTION_TYPE_CHOICES and a material of MATERIAL_TYPE_CHOICES, and
\* for no other friction type or material: a lookup with a code outside
\* either set is a KeyError.
C30_RoughnessTotal ==
    /\ keys(MATERIAL_ROUGHNESS) = codes(FRICTION_TYPE_CHOICES)
    /\ Len(MATERIAL_ROUGHNESS) = Len(FRICTION_TYPE_CHOICES)
    /\ \A n \in DOMAIN MATERIAL_ROUGHNESS :
         /\ keys(MATERIAL_ROUGHNESS[n][2]) = codes(MATERIAL_TYPE_CHOICES)
         /\ Len(MATERIAL_ROUGHNESS[n][2]) = Len(MATERIAL_TYPE_CHOICES)
    /\ (found # None /\ found.op = "roughness") =>
         ((found.value.t = "KeyError") <=>
             ~(/\ found.friction \in codes(FRICTION_TYPE_CHOICES)
               /\ found.material \in codes(MATERIAL_TYPE_CHOICES)))

\* the roughness of steel under the friction type with the placeholder code
\* 999 has been looked up
C30_Witness ==
    /\ found # None
    /\ found.op = "roughness"
    /\ found.friction = PyInt(999)
    /\ found.material = PyInt(8)
    /\ found.value.t = "float"
    /\ found.value.v = <<150, 100>>
====
